---- MODULE Spec2Model ----
(***************************************************************************)
(* ProMonitor emulator: the scenario-control endpoints of app.py           *)
(* (trigger_scenario, stop_scenario, SCENARIO_STATE) and the reading       *)
(* generator of data_generator.py (sync_scenarios_from_app,                *)
(* generate_sensor_reading, generate_all_sensors) that reads the scenario  *)
(* state from its own thread; the generation loop as a whole; the          *)
(* ModbusIntegrationWriter of integration_writer.py; the protocol server   *)
(* (register codec, value store, frames, connections); the DataBridge of   *)
(* bridge_service.py; and the reports of the latest readings of app.py.    *)
(*                                                                         *)
(* Numbers: physical quantities are integers in thousandths before         *)
(* round(x, 2) and in hundredths after it; intensities, buildings and      *)
(* seconds are plain integers.                                             *)
(***************************************************************************)
EXTENDS Integers, Sequences, FiniteSets, TLC

VARIABLES
    SCENARIO_STATE,   \* app.py: the module-level scenario dictionary
    trig,             \* the trigger_scenario request in flight (locals, position)
    stop,             \* the stop_scenario request in flight (locals, position)
    lastTrigger,      \* history: per type, whether the last request for it that was
                      \* answered success=true was a trigger ("triggered", with its
                      \* building) or a stop ("stopped"; kept only for a type whose
                      \* entry a trigger has written), or none was yet ("never")
    appInSysModules,  \* whether app.py is loaded under the module name 'app'
    synced,           \* data_generator.ACTIVE_SCENARIOS is bound to app.SCENARIO_STATE
    gen,              \* the generator thread: position in its loop and in the pass
    reading,          \* the reading generate_sensor_reading returned last
    passSeen,         \* history: per building, the sets of scenarios applied to the
                      \* readings generated for it in the pass in progress
    now,              \* the wall clock, in seconds
    readings,         \* the list generate_all_sensors is building or has returned:
                      \* of each reading, the sensor, building and controller ids
    loop,             \* the generation loop as a whole: its position, its iteration
                      \* counter, and what has happened to it
    writer,           \* integration_writer.py: the ModbusIntegrationWriter, the
                      \* position of start_emulation and of stop()
    store,            \* the sensor value store of the protocol server: the value of
                      \* each configured sensor, and the ticks it has had
    conns,            \* the connections of the protocol server: per connection its
                      \* state, the frames sent to it and not yet read, the request
                      \* being handled, the responses written, and (history) the
                      \* complete requests read
    feed,             \* the generator as the bridge sees it: the wall clock, and the
                      \* rows of the pass that are generated and not yet inserted
    sensor_readings,  \* the table sensor_readings, in insertion order
    data_data,        \* the table data_data, in insertion order
    bridge,           \* bridge_service.py: the DataBridge and the position of
                      \* sync_data
    latest            \* what the dashboard is told of sensor_readings: the rows
                      \* stored, the clock, the last response of
                      \* /api/readings/latest and the last 'sensor_update' payload

\* The scenario endpoints and the generator thread's pass.
scenarioVars == <<SCENARIO_STATE, trig, stop, lastTrigger, appInSysModules, synced,
                  gen, reading, passSeen, now, readings>>

\* What the scenario endpoints and the pass leave alone.
serverVars == <<store, conns>>

bridgeVars == <<feed, sensor_readings, data_data, bridge>>

otherVars == <<loop, writer, serverVars, bridgeVars, latest>>

\* What the generation loop as a whole leaves alone.
notLoop == <<scenarioVars, writer, serverVars, bridgeVars, latest>>

\* What the integration writer leaves alone.
notWriter == <<scenarioVars, loop, serverVars, bridgeVars, latest>>

\* What the protocol server leaves alone.
notServer == <<scenarioVars, loop, writer, bridgeVars, latest>>

\* What the reports of the latest readings leave alone.
notLatest == <<scenarioVars, loop, writer, serverVars, bridgeVars>>

\* What the data bridge and the inserts it reads leave alone.
notBridge == <<scenarioVars, loop, writer, serverVars, latest>>

vars == <<scenarioVars, otherVars>>

(***************************************************************************)
(* Bounds of the model.                                                    *)
(***************************************************************************)
MaxBuilding == 2            \* buildings whose sensors the modelled pass covers
MaxSensorsPerBuilding == 2  \* sensors of each such building in the modelled pass
MaxTime == 2                \* the clock stops advancing here
MaxTouchedTypes == 2        \* scenario types triggered in one behaviour of Spec
MaxTouchedTypesGen == 1     \* the same, with the generator thread running
MaxIteration == 10          \* iterations the generation loop is followed for
MaxMappedSensors == 2       \* sensors in the integration writer's sensor_mappings
MaxConns == 2               \* connections the protocol server accepts
MaxRequests == 2            \* frames a client sends on one connection
MaxTicks == 2               \* simulation ticks of the sensor value store
MaxRows == 3                \* rows generated for sensor_readings
MaxStored == 2              \* rows of sensor_readings the dashboard reports from

(***************************************************************************)
(* Python values.                                                          *)
(***************************************************************************)
None == -1      \* Python None: a JSON null, or dict.get on an absent key
Missing == -2   \* the key is absent from the request body

ScenarioTypes == {"temperature_spike", "humidity_drop", "co2_alarm", "equipment_failure"}

\* iteration order of SCENARIO_STATE (insertion order of the literal)
ScenarioKeys == <<"temperature_spike", "humidity_drop", "co2_alarm", "equipment_failure">>

KeyIndex(t) == CHOOSE k \in 1..Len(ScenarioKeys) : ScenarioKeys[k] = t

\* The literal of app.py; data_generator.py holds an equal literal of its own.
\* 'failed_sensors' of equipment_failure is never read and is left out; an entry
\* without an 'intensity', 'started_at' or 'duration' key has None there.
InitialEntry(i) ==
    [active |-> FALSE, building_id |-> None, intensity |-> i,
     started_at |-> None, duration |-> None]

InitialScenarioState ==
    [t \in ScenarioTypes |->
        CASE t = "temperature_spike" -> InitialEntry(10)
          [] t = "humidity_drop"     -> InitialEntry(15)
          [] t = "co2_alarm"         -> InitialEntry(400)
          [] OTHER                   -> InitialEntry(None)]

ACTIVE_SCENARIOS_literal == InitialScenarioState

(***************************************************************************)
(* trigger_scenario                                                        *)
(***************************************************************************)
DefaultDuration == 300

\* data.get('building_id', 1), data.get('duration', 300)
GetOr(v, default) == IF v = Missing THEN default ELSE v

\* data.get('intensity'): None when the key is absent
GetOrNone(v) == IF v = Missing THEN None ELSE v

\* The variant `if not intensity`: a supplied 0 is taken as not provided.
DefaultIntensityBuggy(t, intensity) ==
    IF intensity = None \/ intensity = 0
    THEN CASE t = "temperature_spike" -> 10
           [] t = "humidity_drop"     -> 15
           [] t = "co2_alarm"         -> 400
           [] OTHER                   -> 0
    ELSE intensity

\* "Set default intensity if not provided"
DefaultIntensity(t, intensity) ==
    IF intensity = None
    THEN CASE t = "temperature_spike" -> 10
           [] t = "humidity_drop"     -> 15
           [] t = "co2_alarm"         -> 400
           [] OTHER                   -> 0
    ELSE intensity

\* No request in flight. `sent` keeps the intensity as the request carried it,
\* `pre` SCENARIO_STATE as the request found it, `emitted` the notifications the
\* request has sent, `success` the flag of the response.
IdleTrig ==
    [pc |-> "idle", type |-> "", building_id |-> None, intensity |-> None,
     duration |-> None, sent |-> None, pre |-> InitialScenarioState,
     emitted |-> <<>>, success |-> FALSE]

IdleStop ==
    [pc |-> "idle", type |-> "", key |-> 0, pre |-> InitialScenarioState,
     emitted |-> <<>>, success |-> FALSE]

\* The variant that answers an unknown type with success=true.
InvalidScenarioAnswerTrue == TRUE

\* jsonify({'success': False, 'error': 'Invalid scenario type'})
InvalidScenarioAnswer == FALSE

\* The request arrives with a JSON body: the locals are read, the type is
\* validated and the default intensity is set. `serial`: requests are served one
\* at a time.
TriggerRecv(serial, t, b, i, d) ==
    /\ trig.pc = "idle"
    /\ serial => stop.pc = "idle"
    /\ IF t \notin DOMAIN SCENARIO_STATE
       THEN trig' = [IdleTrig EXCEPT !.pc = "done", !.type = t, !.sent = i,
                        !.pre = SCENARIO_STATE,
                        !.success = InvalidScenarioAnswer]
       ELSE trig' = [IdleTrig EXCEPT !.pc = "query", !.type = t,
                        !.building_id = GetOr(b, 1),
                        !.intensity = DefaultIntensity(t, GetOrNone(i)),
                        !.duration = GetOr(d, DefaultDuration),
                        !.sent = i,
                        !.pre = SCENARIO_STATE]
    /\ UNCHANGED <<otherVars, readings>>
    /\ UNCHANGED <<SCENARIO_STATE, stop, lastTrigger, appInSysModules, synced,
                   gen, reading, passSeen, now>>

\* The request has no JSON body: data is None and data.get raises.
TriggerNoBody(serial) ==
    /\ trig.pc = "idle"
    /\ serial => stop.pc = "idle"
    /\ trig' = [IdleTrig EXCEPT !.pc = "done", !.pre = SCENARIO_STATE,
                   !.success = FALSE]
    /\ UNCHANGED <<otherVars, readings>>
    /\ UNCHANGED <<SCENARIO_STATE, stop, lastTrigger, appInSysModules, synced,
                   gen, reading, passSeen, now>>

\* get_db_connection and the SELECT of the building's sensors: either may raise.
TriggerQuery(ok) ==
    /\ trig.pc = "query"
    /\ trig' = IF ok THEN [trig EXCEPT !.pc = "activate"]
                     ELSE [trig EXCEPT !.pc = "done", !.success = FALSE]
    /\ UNCHANGED <<otherVars, readings>>
    /\ UNCHANGED <<SCENARIO_STATE, stop, lastTrigger, appInSysModules, synced,
                   gen, reading, passSeen, now>>

\* The dictionary the handler stores under the scenario type.
ActivatedEntry(req, t) ==
    [active |-> TRUE, building_id |-> req.building_id, intensity |-> req.intensity,
     started_at |-> t, duration |-> req.duration]

\* The variant that stores the new entry under every key.
ActivateAllTypes(state, req, t) ==
    [k \in DOMAIN state |-> ActivatedEntry(req, t)]

\* The variant that notifies without having stored the entry.
ActivateNothing(state, req, t) == state

\* SCENARIO_STATE[scenario_type] = {...}
Activate(state, req, t) ==
    [state EXCEPT ![req.type] = ActivatedEntry(req, t)]

TriggerActivate ==
    /\ trig.pc = "activate"
    /\ SCENARIO_STATE' = Activate(SCENARIO_STATE, trig, now)
    /\ trig' = [trig EXCEPT !.pc = "emit"]
    /\ UNCHANGED <<otherVars, readings>>
    /\ UNCHANGED <<stop, lastTrigger, appInSysModules, synced, gen, reading,
                   passSeen, now>>

TriggeredNotification(req) ==
    [event |-> "scenario_triggered", type |-> req.type,
     building_id |-> req.building_id, intensity |-> req.intensity]

\* cursor.close(), conn.close() and socketio.emit: when one raises the handler
\* answers success=false; otherwise the notification is out and the handler
\* answers success=true.
TriggerEmit(ok) ==
    /\ trig.pc = "emit"
    /\ IF ok
       THEN /\ trig' = [trig EXCEPT !.pc = "done", !.success = TRUE,
                           !.emitted = Append(@, TriggeredNotification(trig))]
            /\ lastTrigger' = [lastTrigger EXCEPT ![trig.type] =
                                 [last |-> "triggered",
                                  building_id |-> trig.building_id]]
       ELSE /\ trig' = [trig EXCEPT !.pc = "done", !.success = FALSE]
            /\ UNCHANGED lastTrigger
    /\ UNCHANGED <<otherVars, readings>>
    /\ UNCHANGED <<SCENARIO_STATE, stop, appInSysModules, synced, gen, reading,
                   passSeen, now>>

\* The response has been sent; the handler is free again.
TriggerReturn ==
    /\ trig.pc = "done"
    /\ trig' = IdleTrig
    /\ UNCHANGED <<otherVars, readings>>
    /\ UNCHANGED <<SCENARIO_STATE, stop, lastTrigger, appInSysModules, synced,
                   gen, reading, passSeen, now>>

(***************************************************************************)
(* stop_scenario                                                           *)
(***************************************************************************)
\* The request arrives with a JSON body: 'all' starts the loop over the keys, a
\* scenario type goes to its own entry, anything else is answered success=false.
StopRecv(serial, t) ==
    /\ stop.pc = "idle"
    /\ serial => trig.pc = "idle"
    /\ stop' = IF t = "all"
               THEN [IdleStop EXCEPT !.pc = "active", !.type = t, !.key = 1,
                        !.pre = SCENARIO_STATE]
               ELSE IF t \in DOMAIN SCENARIO_STATE
               THEN [IdleStop EXCEPT !.pc = "active", !.type = t,
                        !.key = KeyIndex(t), !.pre = SCENARIO_STATE]
               ELSE [IdleStop EXCEPT !.pc = "done", !.type = t,
                        !.pre = SCENARIO_STATE,
                        !.success = InvalidScenarioAnswer]
    /\ UNCHANGED <<otherVars, readings>>
    /\ UNCHANGED <<SCENARIO_STATE, trig, lastTrigger, appInSysModules, synced,
                   gen, reading, passSeen, now>>

\* The request has no JSON body: data is None and data.get raises.
StopNoBody(serial) ==
    /\ stop.pc = "idle"
    /\ serial => trig.pc = "idle"
    /\ stop' = [IdleStop EXCEPT !.pc = "done", !.pre = SCENARIO_STATE,
                   !.success = FALSE]
    /\ UNCHANGED <<otherVars, readings>>
    /\ UNCHANGED <<SCENARIO_STATE, trig, lastTrigger, appInSysModules, synced,
                   gen, reading, passSeen, now>>

\* SCENARIO_STATE[key]['active'] = False
Deactivate(state, k) == [state EXCEPT ![k].active = FALSE]

\* SCENARIO_STATE[key]['building_id'] = None
ClearBuilding(state, k) == [state EXCEPT ![k].building_id = None]

StopActive ==
    /\ stop.pc = "active"
    /\ SCENARIO_STATE' = Deactivate(SCENARIO_STATE, ScenarioKeys[stop.key])
    /\ stop' = [stop EXCEPT !.pc = "building"]
    /\ UNCHANGED <<otherVars, readings>>
    /\ UNCHANGED <<trig, lastTrigger, appInSysModules, synced, gen, reading,
                   passSeen, now>>

\* After the second assignment the loop of 'all' goes on to the next key.
StopBuilding ==
    /\ stop.pc = "building"
    /\ SCENARIO_STATE' = ClearBuilding(SCENARIO_STATE, ScenarioKeys[stop.key])
    /\ stop' = IF stop.type = "all" /\ stop.key < Len(ScenarioKeys)
               THEN [stop EXCEPT !.pc = "active", !.key = @ + 1]
               ELSE [stop EXCEPT !.pc = "emit"]
    /\ UNCHANGED <<otherVars, readings>>
    /\ UNCHANGED <<trig, lastTrigger, appInSysModules, synced, gen, reading,
                   passSeen, now>>

StoppedNotification(req) ==
    [event |-> "scenario_stopped", type |-> req.type,
     building_id |-> None, intensity |-> None]

\* The types a stop request names.
StoppedTypes(t) == IF t = "all" THEN ScenarioTypes ELSE {t}

\* socketio.emit('scenario_stopped', ...): when it raises the handler answers
\* success=false, otherwise success=true.
StopEmit(ok) ==
    /\ stop.pc = "emit"
    /\ IF ok
       THEN /\ stop' = [stop EXCEPT !.pc = "done", !.success = TRUE,
                           !.emitted = Append(@, StoppedNotification(stop))]
            /\ lastTrigger' = [t \in ScenarioTypes |->
                                 IF t \in StoppedTypes(stop.type)
                                    /\ SCENARIO_STATE[t] # InitialScenarioState[t]
                                 THEN [last |-> "stopped", building_id |-> None]
                                 ELSE lastTrigger[t]]
       ELSE /\ stop' = [stop EXCEPT !.pc = "done", !.success = FALSE]
            /\ UNCHANGED lastTrigger
    /\ UNCHANGED <<otherVars, readings>>
    /\ UNCHANGED <<SCENARIO_STATE, trig, appInSysModules, synced, gen, reading,
                   passSeen, now>>

StopReturn ==
    /\ stop.pc = "done"
    /\ stop' = IdleStop
    /\ UNCHANGED <<otherVars, readings>>
    /\ UNCHANGED <<SCENARIO_STATE, trig, lastTrigger, appInSysModules, synced,
                   gen, reading, passSeen, now>>

(***************************************************************************)
(* data_generator.py                                                       *)
(***************************************************************************)
\* The variant range(lo, hi + 1): the last sensor of a controller is also the
\* first of the next.
ControllerSensorsInclusive(b, c, lo, hi) ==
    [k \in 1..(hi - lo + 1) |->
        [building_id |-> b, controller_id |-> c, sensor_id |-> lo + k - 1]]

\* [(b, c, s) for s in range(lo, hi)]
ControllerSensors(b, c, lo, hi) ==
    [k \in 1..(hi - lo) |->
        [building_id |-> b, controller_id |-> c, sensor_id |-> lo + k - 1]]

sensors_config ==
    ControllerSensors(1, 1, 1, 5) \o ControllerSensors(1, 2, 5, 9)
        \o ControllerSensors(1, 3, 9, 13)
    \o ControllerSensors(2, 4, 13, 17) \o ControllerSensors(2, 5, 17, 21)
        \o ControllerSensors(2, 6, 21, 25)
    \o ControllerSensors(3, 7, 25, 29) \o ControllerSensors(3, 8, 29, 33)
        \o ControllerSensors(3, 9, 33, 37)
    \o ControllerSensors(4, 10, 37, 41) \o ControllerSensors(4, 11, 41, 45)
    \o ControllerSensors(5, 12, 45, 49) \o ControllerSensors(5, 13, 49, 53)

\* The part of sensors_config a modelled pass goes through, in its order: of each
\* of the first MaxBuilding buildings, the first MaxSensorsPerBuilding sensors.
InPass(k) ==
    /\ sensors_config[k].building_id <= MaxBuilding
    /\ Cardinality({j \in 1..(k - 1) :
           sensors_config[j].building_id = sensors_config[k].building_id})
         < MaxSensorsPerBuilding

RECURSIVE Pick(_)
Pick(k) ==
    IF k = 0 THEN <<>>
    ELSE IF InPass(k) THEN Append(Pick(k - 1), sensors_config[k])
    ELSE Pick(k - 1)

PassConfig == Pick(Len(sensors_config))

PassBuildings == {PassConfig[k].building_id : k \in 1..Len(PassConfig)}

base_temps == (1 :> 20) @@ (2 :> 21) @@ (3 :> 23) @@ (4 :> 25) @@ (5 :> 26)

base_humidity == (1 :> 47) @@ (2 :> 49) @@ (3 :> 51) @@ (4 :> 53) @@ (5 :> 55)

\* random.uniform(a, b), in thousandths, at two sample points: the lower end, and
\* a point that round(x, 2) takes up to the upper end.
UniformLow(a, b) == a * 1000

UniformHigh(a, b) == b * 1000 - 5

\* round(x, 2): thousandths to hundredths, a tie to the even neighbour
Round2(x) ==
    LET q == x \div 10
        r == x % 10
    IN  IF r < 5 THEN q
        ELSE IF r > 5 THEN q + 1
        ELSE IF q % 2 = 0 THEN q ELSE q + 1

\* scenario.get('intensity', default)
IntensityOf(entry, default) ==
    IF entry.intensity = None THEN default ELSE entry.intensity

\* The variant that leaves the building out of the test.
InScopeAnyBuilding(entry, b) == entry.active

\* scenario.get('active') and scenario.get('building_id') == building_id
InScope(entry, b) == entry.active /\ entry.building_id = b

\* The scenarios whose effect a reading of building b gets.
Applied(scen, b) == {t \in ScenarioTypes : InScope(scen[t], b)}

NoReading ==
    [sensor_id |-> 0, building_id |-> 0, controller_id |-> 0, temperature |-> 0,
     humidity |-> 0, co2 |-> 0, pressure |-> 0, timestamp |-> 0]

\* The variant that applies the equipment failure before the other scenarios.
SensorReadingFailureFirst(scen, s, n, f, ts) ==
    LET b == s.building_id
        failure == InScope(scen["equipment_failure"], b)
        temperature0 == base_temps[b] * 1000 + n[1] + (IF failure THEN f[1] ELSE 0)
        humidity0 == IF failure THEN f[2] ELSE base_humidity[b] * 1000 + n[2]
        co20 == IF failure THEN f[3] ELSE n[3]
        pressure0 == IF failure THEN f[4] ELSE n[4]
    IN  [sensor_id |-> s.sensor_id,
         temperature |->
            Round2(IF InScope(scen["temperature_spike"], b)
                   THEN temperature0
                           + IntensityOf(scen["temperature_spike"], 10) * 1000
                   ELSE temperature0),
         humidity |->
            Round2(IF InScope(scen["humidity_drop"], b)
                   THEN humidity0 - IntensityOf(scen["humidity_drop"], 15) * 1000
                   ELSE humidity0),
         co2 |->
            Round2(IF InScope(scen["co2_alarm"], b)
                   THEN co20 + IntensityOf(scen["co2_alarm"], 400) * 1000
                   ELSE co20),
         pressure |-> Round2(pressure0),
         building_id |-> b,
         controller_id |-> s.controller_id,
         timestamp |-> ts]

\* generate_sensor_reading after the sync: `scen` is ACTIVE_SCENARIOS, n the four
\* normal variations, f the four draws of an equipment failure, ts datetime.now()
SensorReading(scen, s, n, f, ts) ==
    LET b == s.building_id
        temperature0 == base_temps[b] * 1000 + n[1]
        humidity0 == base_humidity[b] * 1000 + n[2]
        co20 == n[3]
        pressure0 == n[4]
        temperature1 ==
            IF InScope(scen["temperature_spike"], b)
            THEN temperature0 + IntensityOf(scen["temperature_spike"], 10) * 1000
            ELSE temperature0
        humidity1 ==
            IF InScope(scen["humidity_drop"], b)
            THEN humidity0 - IntensityOf(scen["humidity_drop"], 15) * 1000
            ELSE humidity0
        co21 ==
            IF InScope(scen["co2_alarm"], b)
            THEN co20 + IntensityOf(scen["co2_alarm"], 400) * 1000
            ELSE co20
        failure == InScope(scen["equipment_failure"], b)
    IN  [sensor_id |-> s.sensor_id,
         temperature |-> Round2(IF failure THEN temperature1 + f[1] ELSE temperature1),
         humidity |-> Round2(IF failure THEN f[2] ELSE humidity1),
         co2 |-> Round2(IF failure THEN f[3] ELSE co21),
         pressure |-> Round2(IF failure THEN f[4] ELSE pressure0),
         building_id |-> b,
         controller_id |-> s.controller_id,
         timestamp |-> ts]

\* sync_scenarios_from_app: ACTIVE_SCENARIOS is rebound to app.SCENARIO_STATE when
\* a module named 'app' is loaded; once rebound it stays so.
SyncScenariosFromApp(bound) == bound \/ appInSysModules

\* The dictionary ACTIVE_SCENARIOS names.
ActiveScenarios(bound) ==
    IF bound THEN SCENARIO_STATE ELSE ACTIVE_SCENARIOS_literal

\* The draws of one call, sampled: all four at the lower end, or all four at the
\* upper end.
NormalDraws ==
    {<<UniformLow(-2, 2), UniformLow(-5, 5), UniformLow(400, 600),
       UniformLow(990, 1020)>>,
     <<UniformHigh(-2, 2), UniformHigh(-5, 5), UniformHigh(400, 600),
       UniformHigh(990, 1020)>>}

FailureDraws ==
    {<<UniformLow(-10, 10), UniformLow(0, 100), UniformLow(0, 2000),
       UniformLow(900, 1100)>>,
     <<UniformHigh(-10, 10), UniformHigh(0, 100), UniformHigh(0, 2000),
       UniformHigh(900, 1100)>>}

NoDraws == <<0, 0, 0, 0>>

\* What tells whose reading a reading is.
Identity(r) ==
    [sensor_id |-> r.sensor_id, building_id |-> r.building_id,
     controller_id |-> r.controller_id]

\* An iteration of the generation loop begins: generate_all_sensors is called.
GenStart ==
    /\ gen.pc = "sleep"
    /\ gen' = [pc |-> "pass", idx |-> 1]
    /\ readings' = <<>>
    /\ passSeen' = [b \in PassBuildings |-> {}]
    /\ UNCHANGED otherVars
    /\ UNCHANGED <<SCENARIO_STATE, trig, stop, lastTrigger, appInSysModules,
                   synced, reading, now>>

\* One turn of the loop of generate_all_sensors: generate_sensor_reading for the
\* next sensor of the configuration.
GenerateReading ==
    /\ gen.pc = "pass"
    /\ gen.idx <= Len(PassConfig)
    /\ LET s == PassConfig[gen.idx]
           bound == SyncScenariosFromApp(synced)
           scen == ActiveScenarios(bound)
       IN  /\ synced' = bound
           /\ \E n \in NormalDraws :
                \E f \in IF InScope(scen["equipment_failure"], s.building_id)
                         THEN FailureDraws ELSE {NoDraws} :
                    /\ reading' = SensorReading(scen, s, n, f, now)
                    /\ readings' = Append(readings, Identity(reading'))
           /\ passSeen' = [passSeen EXCEPT ![s.building_id] =
                              @ \cup {Applied(scen, s.building_id)}]
    /\ gen' = [gen EXCEPT !.idx = @ + 1]
    /\ UNCHANGED otherVars
    /\ UNCHANGED <<SCENARIO_STATE, trig, stop, lastTrigger, appInSysModules, now>>

\* The pass is over: insert_readings, then the loop sleeps.
GenInsert ==
    /\ gen.pc = "pass"
    /\ gen.idx > Len(PassConfig)
    /\ gen' = [pc |-> "sleep", idx |-> 0]
    /\ UNCHANGED <<otherVars, readings>>
    /\ UNCHANGED <<SCENARIO_STATE, trig, stop, lastTrigger, appInSysModules,
                   synced, reading, passSeen, now>>

\* A second passes.
Tick ==
    /\ now < MaxTime
    /\ now' = now + 1
    /\ UNCHANGED <<otherVars, readings>>
    /\ UNCHANGED <<SCENARIO_STATE, trig, stop, lastTrigger, appInSysModules,
                   synced, gen, reading, passSeen>>

(***************************************************************************)
(* The generation loop: continuous_data_generation of app.py (a thread of   *)
(* the app) and run_generator of data_generator.py (the standalone          *)
(* process), with the failures of an iteration.                             *)
(***************************************************************************)
\* "Cleanup every 10 iterations"
CleanupEvery == 10

\* The loop before its first iteration. `failed`: the iteration before this one
\* went through the except branch.
InitialLoop(standalone) ==
    [pc |-> "top", iteration |-> 0, standalone |-> standalone, failed |-> FALSE,
     interrupted |-> FALSE]

\* The variant in which an exception leaves the loop.
OnExceptionExit(l) == [l EXCEPT !.pc = "ended"]

\* except Exception as e: the error is printed, then the loop sleeps
OnException(l) == [l EXCEPT !.pc = "except"]

\* while True: try: iteration += 1
LoopIterate ==
    /\ loop.pc = "top"
    /\ loop.iteration < MaxIteration
    /\ loop' = [loop EXCEPT !.pc = "generate", !.iteration = @ + 1]
    /\ UNCHANGED notLoop

\* readings = generate_all_sensors(): it returns, or it raises (an intensity that
\* is not a number makes `temperature += intensity` raise).
LoopGenerate(ok) ==
    /\ loop.pc = "generate"
    /\ loop' = IF ok THEN [loop EXCEPT !.pc = "insert"] ELSE OnException(loop)
    /\ UNCHANGED notLoop

\* success = insert_readings(readings): it catches what its database calls raise
\* and returns False; either way the loop goes on, to the cleanup in every tenth
\* iteration.
LoopInsert(ok) ==
    /\ loop.pc = "insert"
    /\ loop' = [loop EXCEPT !.pc = IF loop.iteration % CleanupEvery = 0
                                   THEN "cleanup" ELSE "sleep"]
    /\ UNCHANGED notLoop

\* cleanup_old_data(): it catches what its database calls raise.
LoopCleanup(ok) ==
    /\ loop.pc = "cleanup"
    /\ loop' = [loop EXCEPT !.pc = "sleep"]
    /\ UNCHANGED notLoop

\* time.sleep at the end of the try block is over.
LoopSleep ==
    /\ loop.pc = "sleep"
    /\ loop' = [loop EXCEPT !.pc = "top", !.failed = FALSE]
    /\ UNCHANGED notLoop

\* time.sleep of the except branch is over.
LoopExceptSleep ==
    /\ loop.pc = "except"
    /\ loop' = [loop EXCEPT !.pc = "top", !.failed = TRUE]
    /\ UNCHANGED notLoop

\* Ctrl+C in the standalone process: KeyboardInterrupt is not an Exception; in
\* the try block it is caught and breaks the loop, in the except branch it leaves
\* run_generator. The thread of the app gets no KeyboardInterrupt.
LoopInterrupt ==
    /\ loop.standalone
    /\ loop.pc # "ended"
    /\ loop' = [loop EXCEPT !.pc = "ended", !.interrupted = TRUE]
    /\ UNCHANGED notLoop

\* The steps the loop takes by itself.
LoopRun ==
    \/ LoopIterate
    \/ \E ok \in BOOLEAN : LoopGenerate(ok)
    \/ \E ok \in BOOLEAN : LoopInsert(ok)
    \/ \E ok \in BOOLEAN : LoopCleanup(ok)
    \/ LoopSleep
    \/ LoopExceptSleep

(***************************************************************************)
(* integration_writer.py: ModbusIntegrationWriter.start_emulation and       *)
(* stop(), after connect() has succeeded.                                   *)
(***************************************************************************)
\* start_emulation has been called and has not yet run a statement; stop() has
\* not been called. `sensor`: the place in the loop over sensor_mappings;
\* `closed`: the cursor and the connection are closed; `last`: what the last
\* write_sensor_data did; `stop`: how far stop() has got.
InitialWriter ==
    [pc |-> "call", running |-> FALSE, sensor |-> 0, closed |-> FALSE,
     last |-> "none", stop |-> "no"]

\* while self.running:
WhileRunning(w) == w.running

\* self.running = True
WriterStart ==
    /\ writer.pc = "call"
    /\ writer' = [writer EXCEPT !.pc = "check", !.running = TRUE]
    /\ UNCHANGED notWriter

\* The loop test: a tick starts, or start_emulation returns.
WriterCheck ==
    /\ writer.pc = "check"
    /\ writer' = IF WhileRunning(writer)
                 THEN [writer EXCEPT !.pc = "tick", !.sensor = 1]
                 ELSE [writer EXCEPT !.pc = "returned"]
    /\ UNCHANGED notWriter

\* write_sensor_data for the next sensor: the INSERT writes a row, or it raises
\* (always on a closed cursor), which write_sensor_data catches to return False.
WriterWrite(ok) ==
    /\ writer.pc = "tick"
    /\ writer.sensor <= MaxMappedSensors
    /\ writer' = [writer EXCEPT !.sensor = @ + 1,
                     !.last = IF ok /\ ~writer.closed THEN "row" ELSE "failed"]
    /\ UNCHANGED notWriter

\* Something else in the tick raises (a sensor whose name is NULL has no
\* lower()): except Exception, time.sleep(5).
WriterRaise ==
    /\ writer.pc = "tick"
    /\ writer.sensor <= MaxMappedSensors
    /\ writer' = [writer EXCEPT !.pc = "sleep"]
    /\ UNCHANGED notWriter

\* The loop over the sensors is over: time.sleep(interval).
WriterTickDone ==
    /\ writer.pc = "tick"
    /\ writer.sensor > MaxMappedSensors
    /\ writer' = [writer EXCEPT !.pc = "sleep"]
    /\ UNCHANGED notWriter

\* The sleep is over.
WriterWake ==
    /\ writer.pc = "sleep"
    /\ writer' = [writer EXCEPT !.pc = "check"]
    /\ UNCHANGED notWriter

\* Ctrl+C while the try block runs: except KeyboardInterrupt sets running to
\* False and the loop test follows.
WriterInterrupt ==
    /\ writer.pc \in {"tick", "sleep"}
    /\ writer' = [writer EXCEPT !.pc = "check", !.running = FALSE]
    /\ UNCHANGED notWriter

\* stop(), first statement: self.running = False
WriterStopFlag ==
    /\ writer.stop = "no"
    /\ writer' = [writer EXCEPT !.stop = "flagged", !.running = FALSE]
    /\ UNCHANGED notWriter

\* stop(), the rest: self.cursor.close(), self.conn.close()
WriterStopClose ==
    /\ writer.stop = "flagged"
    /\ writer' = [writer EXCEPT !.stop = "closed", !.closed = TRUE]
    /\ UNCHANGED notWriter

(***************************************************************************)
(* The protocol server: register codec, sensor value store, frame           *)
(* parser/builder and connection server, after sections 4 to 6 of the       *)
(* specification. A sensor value is an integer number of 1/256 of its unit *)
(* (such a value is exact in float32); a frame is a sequence of bytes.      *)
(***************************************************************************)
RECURSIVE Log2(_)
\* The position of the highest bit of n >= 1.
Log2(n) == IF n < 2 THEN 0 ELSE 1 + Log2(n \div 2)

RECURSIVE Pow2(_)
Pow2(k) == IF k = 0 THEN 1 ELSE 2 * Pow2(k - 1)

\* The IEEE-754 binary32 fields of v/256, for |v| < 2^24: the sign bit, the
\* biased exponent, and the 23 bits of the significand after the leading one.
Float32Fields(v) ==
    IF v = 0 THEN [sign |-> 0, exponent |-> 0, fraction |-> 0]
    ELSE LET a == IF v < 0 THEN -v ELSE v
             h == Log2(a)
         IN  [sign |-> IF v < 0 THEN 1 ELSE 0,
              exponent |-> h - 8 + 127,
              fraction |-> a * Pow2(23 - h) - Pow2(23)]

\* encode: the four bytes big-endian, hi = the first two (sign, exponent, the
\* seven high bits of the fraction), lo = the last two
Encode(v) ==
    LET f == Float32Fields(v)
    IN  [hi |-> f.sign * 32768 + f.exponent * 128 + f.fraction \div 65536,
         lo |-> f.fraction % 65536]

\* The register address map: the base address of every configured sensor.
BaseAddresses ==
    {1000, 1002, 1004, 1006} \cup {2000, 2002, 2004} \cup {3000, 3002}
        \cup {4000, 4002, 4004}

\* The variant that takes the slot address itself for the base address.
OwnerBaseUnaligned(a) == a

\* The even base address of the sensor that owns slot a.
OwnerBase(a) == (a \div 2) * 2

\* The word of one register slot: of the owning sensor's encoded value the high
\* word at an even address, the low word at an odd one; 0 when no configured
\* sensor owns the slot.
RegisterWord(values, a) ==
    IF OwnerBase(a) \in DOMAIN values
    THEN IF a % 2 = 0 THEN Encode(values[OwnerBase(a)]).hi
                      ELSE Encode(values[OwnerBase(a)]).lo
    ELSE 0

\* readRegisterRange(startAddress, count)
ReadRegisterRange(values, startAddress, count) ==
    [k \in 1..count |-> RegisterWord(values, startAddress + k - 1)]

\* A 16-bit quantity as two bytes, big-endian.
Bytes16(x) == <<(x \div 256) % 256, x % 256>>

\* The 16-bit quantity at bytes k and k+1 (k counted from 0, as in section 6).
Word16(bytes, k) == bytes[k + 1] * 256 + bytes[k + 2]

RECURSIVE RegisterBytes(_)
\* each register big-endian
RegisterBytes(registers) ==
    IF registers = <<>> THEN <<>>
    ELSE Bytes16(Head(registers)) \o RegisterBytes(Tail(registers))

\* buildReadResponse
BuildReadResponse(transactionId, unitId, registers) ==
    Bytes16(transactionId) \o <<0, 0>> \o Bytes16(3 + 2 * Len(registers))
        \o <<unitId, 3, (2 * Len(registers)) % 256>> \o RegisterBytes(registers)

\* functionCode OR 0x80, on 8 bits
HighBitSet(functionCode) ==
    IF functionCode >= 128 THEN functionCode ELSE functionCode + 128

\* The variant that echoes the function code as it came.
BuildExceptionResponseNoHighBit(transactionId, unitId, functionCode, exceptionCode) ==
    Bytes16(transactionId) \o <<0, 0>> \o <<0, 3>>
        \o <<unitId, functionCode, exceptionCode>>

\* buildExceptionResponse: the fixed 9-byte frame
BuildExceptionResponse(transactionId, unitId, functionCode, exceptionCode) ==
    Bytes16(transactionId) \o <<0, 0>> \o <<0, 3>>
        \o <<unitId, HighBitSet(functionCode), exceptionCode>>

\* A request frame as a client builds it.
RequestFrame(transactionId, unitId, functionCode, payload) ==
    Bytes16(transactionId) \o <<0, 0>> \o Bytes16(2 + Len(payload))
        \o <<unitId, functionCode>> \o payload

\* parseRequestHeader, once the frame is long enough
ParseRequestHeader(bytes) ==
    [transactionId |-> Word16(bytes, 0), protocolId |-> Word16(bytes, 2),
     length |-> Word16(bytes, 4), unitId |-> bytes[7], functionCode |-> bytes[8],
     payload |-> SubSeq(bytes, 9, Len(bytes))]

\* FrameTooShort: fewer than 8 bytes, or a read-registers request of fewer
\* than 12.
FrameTooShort(bytes) ==
    \/ Len(bytes) < 8
    \/ bytes[8] = 3 /\ Len(bytes) < 12

\* The configured range of the sensor based at a, by its category: 10 units
\* either side of the nominal value of the category.
SensorMin(a) == (a \div 1000) * 5000 - 2560
SensorMax(a) == (a \div 1000) * 5000 + 2560

\* The store at startup: every configured sensor with a value of its
\* category, none of them with a zero low word, and no sensor pinned.
InitialStore ==
    [values |-> [a \in BaseAddresses |->
                    (a \div 1000) * 5000 + (a % 1000) * 129 + 121],
     pinned |-> [a \in BaseAddresses |-> FALSE],
     manual |-> [a \in BaseAddresses |-> 0],
     ticks |-> 0]

\* clamp to [min, max]
Clamp(v, min, max) == IF v < min THEN min ELSE IF v > max THEN max ELSE v

\* The variant of the tick that treats a pinned sensor like any other.
TickValueIgnoringPin(s, a, d) ==
    Clamp(s.values[a] + d, SensorMin(a), SensorMax(a))

\* The variant of the tick that applies the delta and does not clamp.
TickValueUnclamped(s, a, d) ==
    IF s.pinned[a] THEN s.values[a] ELSE s.values[a] + d

\* The value of the sensor based at a after a tick with delta d: a pinned sensor
\* is exempt; any other has the delta applied and is then clamped to its range.
TickValue(s, a, d) ==
    IF s.pinned[a] THEN s.values[a]
    ELSE Clamp(s.values[a] + d, SensorMin(a), SensorMax(a))

\* tick(): every sensor not pinned drifts and is clamped; the store lock makes
\* the tick one step. The delta of a tick is sampled at d/256 for all sensors
\* alike.
StoreTick(d) ==
    /\ store.ticks < MaxTicks
    /\ store' = [store EXCEPT
                    !.values = [a \in BaseAddresses |-> TickValue(store, a, d)],
                    !.ticks = @ + 1]
    /\ UNCHANGED <<conns, notServer>>

\* setManual(sensorId, value): NotFound for an unknown sensor, the store as it
\* was; otherwise the sensor is pinned to the value at once, whatever its range.
SetManual(sensorId, value) ==
    /\ store' = IF sensorId \notin DOMAIN store.values THEN store
                ELSE [store EXCEPT !.values[sensorId] = value,
                                   !.pinned[sensorId] = TRUE,
                                   !.manual[sensorId] = value]
    /\ UNCHANGED <<conns, notServer>>

\* clearManual(sensorId): the sensor is no longer pinned; its value stays what
\* it is until the next tick.
ClearManual(sensorId) ==
    /\ store' = IF sensorId \notin DOMAIN store.values THEN store
                ELSE [store EXCEPT !.pinned[sensorId] = FALSE,
                                   !.manual[sensorId] = 0]
    /\ UNCHANGED <<conns, notServer>>

\* The control interface: operators pin the given sensors to the given values
\* and release them.
Manual(sensorIds, values) ==
    \/ \E sensorId \in sensorIds, value \in values : SetManual(sensorId, value)
    \/ \E sensorId \in sensorIds : ClearManual(sensorId)

NoRequest == [functionCode |-> -1]

\* A connection slot before a client has connected.
InitialConn ==
    [state |-> "listening", inbox |-> <<>>, cur |-> NoRequest, outbox |-> <<>>,
     received |-> <<>>, log |-> <<>>]

\* Listening -> Connected: the server accepts a client.
Accept(c) ==
    /\ conns[c].state = "listening"
    /\ conns' = [conns EXCEPT ![c].state = "connected"]
    /\ UNCHANGED <<store, notServer>>

\* The client sends a frame.
ClientSend(c, frame) ==
    /\ conns[c].state = "connected"
    /\ Len(conns[c].received) + Len(conns[c].inbox) < MaxRequests
    /\ conns' = [conns EXCEPT ![c].inbox = Append(@, frame)]
    /\ UNCHANGED <<store, notServer>>

\* The client closes its socket: the server's next read returns zero bytes.
ClientClose(c) ==
    /\ conns[c].state = "connected"
    /\ \A k \in 1..Len(conns[c].inbox) : conns[c].inbox[k] # <<>>
    /\ conns' = [conns EXCEPT ![c].inbox = Append(@, <<>>)]
    /\ UNCHANGED <<store, notServer>>

\* The variant that takes a frame too short for the end of the service: it
\* closes every connection.
ServerReadCloseAll(c) ==
    /\ conns[c].state = "connected"
    /\ conns[c].cur = NoRequest
    /\ conns[c].inbox # <<>>
    /\ LET frame == Head(conns[c].inbox)
       IN  conns' =
             IF frame = <<>>
             THEN [conns EXCEPT ![c].state = "closed", ![c].inbox = <<>>]
             ELSE IF FrameTooShort(frame)
             THEN [k \in DOMAIN conns |->
                     [conns[k] EXCEPT !.state = "closed", !.inbox = <<>>,
                                      !.log = frame]]
             ELSE [conns EXCEPT ![c].inbox = Tail(@),
                                ![c].cur = ParseRequestHeader(frame),
                                ![c].received = Append(@, frame)]
    /\ UNCHANGED <<store, notServer>>

\* read frame: zero bytes close the connection, a frame too short drops it
\* without a response and is logged, any other frame is parsed into the request
\* to handle.
ServerRead(c) ==
    /\ conns[c].state = "connected"
    /\ conns[c].cur = NoRequest
    /\ conns[c].inbox # <<>>
    /\ LET frame == Head(conns[c].inbox)
       IN  conns' =
             IF frame = <<>>
             THEN [conns EXCEPT ![c].state = "closed", ![c].inbox = <<>>]
             ELSE IF FrameTooShort(frame)
             THEN [conns EXCEPT ![c].state = "closed", ![c].inbox = <<>>,
                                ![c].log = frame]
             ELSE [conns EXCEPT ![c].inbox = Tail(@),
                                ![c].cur = ParseRequestHeader(frame),
                                ![c].received = Append(@, frame)]
    /\ UNCHANGED <<store, notServer>>

\* The variant that answers a read outside the register map with the exception
\* "illegal data address".
DispatchIllegalAddress(values, request) ==
    IF request.functionCode = 3
    THEN IF \A k \in 0..(Word16(request.payload, 2) - 1) :
               OwnerBase(Word16(request.payload, 0) + k) \notin DOMAIN values
         THEN BuildExceptionResponse(request.transactionId, request.unitId, 3, 2)
         ELSE BuildReadResponse(request.transactionId, request.unitId,
                  ReadRegisterRange(values, Word16(request.payload, 0),
                                    Word16(request.payload, 2)))
    ELSE BuildExceptionResponse(request.transactionId, request.unitId,
             request.functionCode, 1)

\* dispatch: the response to a request, against the values of the store.
Dispatch(values, request) ==
    IF request.functionCode = 3
    THEN BuildReadResponse(request.transactionId, request.unitId,
             ReadRegisterRange(values, Word16(request.payload, 0),
                               Word16(request.payload, 2)))
    ELSE BuildExceptionResponse(request.transactionId, request.unitId,
             request.functionCode, 1)

\* The variant that writes the response twice.
ServerRespondDuplicate(c) ==
    /\ conns[c].state = "connected"
    /\ conns[c].cur # NoRequest
    /\ conns' = [conns EXCEPT
                    ![c].outbox = @ \o <<Dispatch(store.values, conns[c].cur),
                                         Dispatch(store.values, conns[c].cur)>>,
                    ![c].cur = NoRequest]
    /\ UNCHANGED <<store, notServer>>

\* dispatch and write response; the handler then reads the next frame.
ServerRespond(c) ==
    /\ conns[c].state = "connected"
    /\ conns[c].cur # NoRequest
    /\ conns' = [conns EXCEPT
                    ![c].outbox = Append(@, Dispatch(store.values, conns[c].cur)),
                    ![c].cur = NoRequest]
    /\ UNCHANGED <<store, notServer>>

\* The protocol server with clients that connect to the given connection slots
\* and send the given frames, one handler per connection, and the simulation
\* driver.
Server(slots, frames) ==
    \/ \E c \in slots : Accept(c)
    \/ \E c \in slots, frame \in frames : ClientSend(c, frame)
    \/ \E c \in slots : ClientClose(c)
    \/ \E c \in slots : ServerRead(c)
    \/ \E c \in slots : ServerRespond(c)
    \/ \E d \in {-3, 3} : StoreTick(d)

(***************************************************************************)
(* bridge_service.py: the DataBridge, and the inserts of the generator it   *)
(* reads. A timestamp is a number of clock ticks.                           *)
(***************************************************************************)
\* The measurements of a row, in the order sync_data copies them.
MeasurementTypes == <<"temperature", "humidity", "co2", "pressure">>

\* sync_data(time_window_minutes=5)
time_window_minutes == 5

\* self.sensor_map after setup_sensor_mapping: Django has two temperature
\* sensors and one humidity sensor, and none for co2 or pressure.
sensor_map ==
    [t \in {"temperature", "humidity", "co2", "pressure"} |->
        CASE t = "temperature" -> <<11, 12>>
          [] t = "humidity" -> <<21>>
          [] OTHER -> <<>>]

\* _get_django_sensor(building_id, sensor_type): None is modelled as 0, which
\* the caller's truth test takes alike.
GetDjangoSensor(building_id, sensor_type) ==
    LET sensors == sensor_map[sensor_type]
    IN  IF sensors = <<>> THEN 0
        ELSE sensors[(building_id % Len(sensors)) + 1]

\* The variant of _write_django_data that lets the error of a failed INSERT out.
WriteDjangoDataRaising(ok) == IF ok THEN "written" ELSE "raised"

\* _write_django_data: True after the INSERT, False when it raised.
WriteDjangoData(ok) == IF ok THEN "written" ELSE "failed"

\* The DataBridge after __init__, connect and setup_sensor_mapping, with no call
\* of sync_data made. result is what the last call came to, returned what it
\* returned, inserted (history) the rows it added to data_data.
InitialBridge ==
    [pc |-> "idle", last_sync_time |-> None, readings |-> <<>>, idx |-> 0,
     synced_count |-> 0, inserted |-> 0, returned |-> 0, result |-> "none"]

\* The clock starts late enough for the first window to start after time 0.
InitialFeed == [clock |-> time_window_minutes + 1, pending |-> <<>>,
                inserting |-> FALSE, generated |-> 0]

\* generate_sensor_reading: the row takes its timestamp from the clock when it
\* is generated; generating takes time.
FeedGenerate(b) ==
    /\ ~feed.inserting
    /\ feed.generated < MaxRows
    /\ feed' = [feed EXCEPT
                  !.pending = Append(@, [timestamp |-> feed.clock,
                                         building_id |-> b, null |-> {},
                                         late |-> FALSE]),
                  !.clock = @ + 1,
                  !.generated = @ + 1]
    /\ UNCHANGED <<sensor_readings, data_data, bridge, notBridge>>

\* insert_readings: executemany on an autocommit connection, one INSERT, and one
\* commit, per row, in the order generated. late (history): the row is inserted
\* after the first sync of the bridge.
FeedInsert ==
    /\ feed.pending # <<>>
    /\ sensor_readings' =
          Append(sensor_readings,
                 [Head(feed.pending) EXCEPT
                     !.late = bridge.result # "none"])
    /\ feed' = [feed EXCEPT !.pending = Tail(@),
                            !.inserting = Tail(feed.pending) # <<>>]
    /\ UNCHANGED <<data_data, bridge, notBridge>>

\* Time passes.
FeedWait ==
    /\ feed.clock < time_window_minutes + 1 + MaxRows
    /\ ~feed.inserting
    /\ sensor_readings # <<>>
    /\ feed' = [feed EXCEPT !.clock = @ + 1]
    /\ UNCHANGED <<sensor_readings, data_data, bridge, notBridge>>

RECURSIVE InsertByTimestamp(_, _, _)
\* seq, a list of row ids sorted by timestamp, with id put in after the ids of
\* no later timestamp.
InsertByTimestamp(rows, seq, id) ==
    IF seq = <<>> THEN <<id>>
    ELSE IF rows[Head(seq)].timestamp <= rows[id].timestamp
         THEN <<Head(seq)>> \o InsertByTimestamp(rows, Tail(seq), id)
         ELSE <<id>> \o seq

RECURSIVE SelectNewer(_, _, _)
\* SELECT ... FROM sensor_readings WHERE timestamp > %s ORDER BY timestamp ASC,
\* over the first k rows: the ids (positions) of the rows selected.
SelectNewer(rows, k, since) ==
    IF k = 0 THEN <<>>
    ELSE IF rows[k].timestamp > since
         THEN InsertByTimestamp(rows, SelectNewer(rows, k - 1, since), k)
         ELSE SelectNewer(rows, k - 1, since)

\* The start of the window a call reads from: the first call's is
\* time_window_minutes before now.
WindowStart(b, clock) ==
    IF b.last_sync_time = None THEN clock - time_window_minutes
    ELSE b.last_sync_time

\* The variant that moves last_sync_time up to now when the read fails.
AfterReadErrorAdvanced(b, clock) ==
    [b EXCEPT !.last_sync_time = clock,
              !.returned = 0, !.inserted = 0, !.result = "read_failed"]

\* sync_data when cursor.execute or fetchall raises: the except clause returns 0.
AfterReadError(b, clock) ==
    [b EXCEPT !.last_sync_time = WindowStart(b, clock),
              !.returned = 0, !.inserted = 0, !.result = "read_failed"]

\* sync_data up to the loop over the readings: the window, the SELECT, and the
\* return of 0 when it raised or found nothing.
SyncRead(ok) ==
    /\ bridge.pc = "idle"
    /\ LET since == WindowStart(bridge, feed.clock)
           fetched == SelectNewer(sensor_readings, Len(sensor_readings), since)
       IN  bridge' =
             IF ~ok THEN AfterReadError(bridge, feed.clock)
             ELSE IF fetched = <<>>
             THEN [bridge EXCEPT !.last_sync_time = since,
                                 !.returned = 0, !.inserted = 0,
                                 !.result = "empty"]
             ELSE [bridge EXCEPT !.last_sync_time = since,
                                 !.pc = "rows", !.readings = fetched,
                                 !.idx = 1, !.synced_count = 0, !.inserted = 0,
                                 !.result = "syncing"]
    /\ UNCHANGED <<feed, sensor_readings, data_data, notBridge>>

RECURSIVE SyncTypes(_, _, _, _, _)
\* The four blocks of the loop body for the reading of row id, from the k-th on:
\* a measurement that is not NULL and has a Django sensor is written and
\* counted. acc: data_data, synced_count, the rows inserted, and whether an
\* exception has left the loop.
SyncTypes(acc, id, row, k, fail) ==
    IF k > Len(MeasurementTypes) \/ acc.raised THEN acc
    ELSE LET t == MeasurementTypes[k]
             django_sensor_id == GetDjangoSensor(row.building_id, t)
             outcome == WriteDjangoData(t \notin fail)
         IN  IF t \notin row.null /\ sensor_map[t] # <<>> /\ django_sensor_id # 0
             THEN SyncTypes(
                    CASE outcome = "written" ->
                           [acc EXCEPT
                              !.data = Append(@, [name_id |-> django_sensor_id,
                                                  date |-> row.timestamp,
                                                  type |-> t, row |-> id]),
                              !.synced_count = @ + 1,
                              !.inserted = @ + 1]
                      [] outcome = "failed" ->
                           [acc EXCEPT !.synced_count = @ + 1]
                      [] OTHER -> [acc EXCEPT !.raised = TRUE],
                    id, row, k + 1, fail)
             ELSE SyncTypes(acc, id, row, k + 1, fail)

\* The measurement types sync_data writes.
MappedTypes == {t \in DOMAIN sensor_map : sensor_map[t] # <<>>}

\* One iteration of the loop over the readings; the INSERTs of the types in fail
\* fail. An exception that leaves the loop ends the call in the except clause,
\* which returns 0.
SyncRow(fail) ==
    /\ bridge.pc = "rows"
    /\ bridge.idx <= Len(bridge.readings)
    /\ LET id == bridge.readings[bridge.idx]
           acc == SyncTypes([data |-> data_data,
                             synced_count |-> bridge.synced_count,
                             inserted |-> bridge.inserted, raised |-> FALSE],
                            id, sensor_readings[id], 1, fail)
       IN  /\ data_data' = acc.data
           /\ bridge' =
                IF acc.raised
                THEN [bridge EXCEPT !.pc = "idle", !.readings = <<>>, !.idx = 0,
                                    !.synced_count = 0,
                                    !.inserted = acc.inserted,
                                    !.returned = 0, !.result = "raised"]
                ELSE [bridge EXCEPT !.idx = @ + 1,
                                    !.synced_count = acc.synced_count,
                                    !.inserted = acc.inserted]
    /\ UNCHANGED <<feed, sensor_readings, notBridge>>

\* After the loop: last_sync_time is the timestamp of the last reading, and the
\* count is returned.
SyncDone ==
    /\ bridge.pc = "rows"
    /\ bridge.idx > Len(bridge.readings)
    /\ bridge' = [bridge EXCEPT
                    !.pc = "idle",
                    !.last_sync_time =
                        sensor_readings[
                            bridge.readings[Len(bridge.readings)]].timestamp,
                    !.returned = bridge.synced_count,
                    !.readings = <<>>, !.idx = 0, !.synced_count = 0,
                    !.result = "synced"]
    /\ UNCHANGED <<feed, sensor_readings, data_data, notBridge>>

\* run_continuous_sync: one call of sync_data after another, while the generator
\* inserts.
Bridge ==
    \/ \E b \in 1..MaxBuilding : FeedGenerate(b)
    \/ FeedInsert
    \/ FeedWait
    \/ \E ok \in BOOLEAN : SyncRead(ok)
    \/ \E fail \in SUBSET MappedTypes : SyncRow(fail)
    \/ SyncDone

(***************************************************************************)
(* app.py: /api/readings/latest and the broadcast of 'sensor_update'. A    *)
(* stored measurement is a DECIMAL with two decimals, held as its number   *)
(* of hundredths, or None for NULL; a timestamp is a number of minutes.    *)
(***************************************************************************)
\* bool(x) of a number or None.
Truthy(x) == x # None /\ x # 0

\* float(x) of a DECIMAL(7,2), as jsonify writes it: at most 7 significant
\* digits, which the shortest repr of the nearest double gives back, so the
\* number written is the number of hundredths stored.
Float(x) == x

\* The variant 'float(x) if x is not None else None'.
ReportedNotNone(x) == IF x # None THEN Float(x) ELSE None

\* float(x) if x else None
Reported(x) == IF Truthy(x) THEN Float(x) ELSE None

\* One entry of the result, from a row fetched. The timestamp column is NOT
\* NULL and a datetime is true: its isoformat() is kept as the number of minutes.
FormatReading(r) ==
    [sensor_id |-> r.sensor_id,
     timestamp |-> r.timestamp,
     temperature |-> Reported(r.temperature),
     humidity |-> Reported(r.humidity),
     co2 |-> Reported(r.co2),
     pressure |-> Reported(r.pressure),
     building_id |-> r.building_id,
     controller_id |-> r.controller_id]

RECURSIVE OrderByTimestamp(_, _)
\* The ids (positions) of the first k rows, ORDER BY timestamp ASC.
OrderByTimestamp(rows, k) ==
    IF k = 0 THEN <<>>
    ELSE InsertByTimestamp(rows, OrderByTimestamp(rows, k - 1), k)

\* ORDER BY timestamp DESC LIMIT n
LatestFirst(rows, n) ==
    LET asc == OrderByTimestamp(rows, Len(rows))
        m == IF Len(asc) < n THEN Len(asc) ELSE n
    IN  [k \in 1..m |-> asc[Len(asc) + 1 - k]]

RECURSIVE DistinctOnSensor(_, _, _)
\* SELECT DISTINCT ON (sensor_id) ... WHERE timestamp > NOW() - INTERVAL
\* '5 minutes' ORDER BY sensor_id, timestamp DESC, over the sensor ids up to s:
\* of each sensor the id of its latest row of the last 5 minutes.
DistinctOnSensor(rows, s, clock) ==
    IF s = 0 THEN <<>>
    ELSE LET recent == {k \in DOMAIN rows :
                           rows[k].sensor_id = s /\ rows[k].timestamp > clock - 5}
         IN  IF recent = {} THEN DistinctOnSensor(rows, s - 1, clock)
             ELSE Append(DistinctOnSensor(rows, s - 1, clock),
                         CHOOSE k \in recent :
                            \A j \in recent :
                               rows[j].timestamp <= rows[k].timestamp)

\* The measurements stored in the modelled rows: NULL, zero, and a value.
StoredTemperatures == {None, 0, 2150}
StoredHumidities == {None, 0, 4725}
StoredCo2 == {0, 41250}
StoredPressures == {None, 101325}

\* Before any request and any emission: api and update (history) hold the last
\* response and the last payload, a payload having at least one reading.
InitialLatest ==
    [rows |-> <<>>, clock |-> 1,
     api |-> [success |-> FALSE, error |-> "no request"],
     update |-> [readings |-> <<>>]]

\* A row is inserted into sensor_readings; a minute passes.
LatestInsert(s, temperature, humidity, co2, pressure) ==
    /\ Len(latest.rows) < MaxStored
    /\ latest' = [latest EXCEPT
                    !.rows = Append(@, [sensor_id |-> s,
                                        timestamp |-> latest.clock,
                                        temperature |-> temperature,
                                        humidity |-> humidity,
                                        co2 |-> co2,
                                        pressure |-> pressure,
                                        building_id |-> 1,
                                        controller_id |-> 1]),
                    !.clock = @ + 1]
    /\ UNCHANGED notLatest

\* Five minutes pass.
LatestWait ==
    /\ latest.clock <= MaxStored + 1
    /\ latest.rows # <<>>
    /\ latest' = [latest EXCEPT !.clock = @ + 5]
    /\ UNCHANGED notLatest

\* get_latest_readings(): the response.
GetLatestReadings(ok) ==
    /\ latest' = [latest EXCEPT !.api =
          IF ~ok THEN [success |-> FALSE, error |-> "exception"]
          ELSE IF latest.rows = <<>>
          THEN [success |-> FALSE, error |-> "No data"]
          ELSE LET ids == LatestFirst(latest.rows, 50)
               IN  [success |-> TRUE,
                    data |-> [k \in 1..Len(ids) |->
                                FormatReading(latest.rows[ids[k]])]]]
    /\ UNCHANGED notLatest

\* One iteration of broadcast_data(): 'sensor_update' is emitted when the query
\* returned rows.
BroadcastData(ok) ==
    /\ LET ids == DistinctOnSensor(latest.rows, MaxStored, latest.clock)
       IN  latest' = [latest EXCEPT !.update =
             IF ok /\ ids # <<>>
             THEN [readings |-> [k \in 1..Len(ids) |->
                                   FormatReading(latest.rows[ids[k]])]]
             ELSE @]
    /\ UNCHANGED notLatest

\* The dashboard's reads of the latest readings while rows are inserted.
Latest ==
    \/ \E s \in 1..MaxStored, temperature \in StoredTemperatures,
          humidity \in StoredHumidities, co2 \in StoredCo2,
          pressure \in StoredPressures :
             LatestInsert(s, temperature, humidity, co2, pressure)
    \/ LatestWait
    \/ \E ok \in BOOLEAN : GetLatestReadings(ok)
    \/ \E ok \in BOOLEAN : BroadcastData(ok)

(***************************************************************************)
(* Specifications                                                          *)
(***************************************************************************)
\* What a specification of the scenario endpoints and the pass does not follow.
InitServer ==
    /\ store = InitialStore
    /\ conns = [c \in 1..MaxConns |-> InitialConn]

InitBridge ==
    /\ feed = InitialFeed
    /\ sensor_readings = <<>>
    /\ data_data = <<>>
    /\ bridge = InitialBridge

InitOther ==
    /\ loop = InitialLoop(FALSE)
    /\ writer = InitialWriter
    /\ InitServer
    /\ InitBridge
    /\ latest = InitialLatest

InitScenario ==
    /\ SCENARIO_STATE = InitialScenarioState
    /\ trig = IdleTrig
    /\ stop = IdleStop
    /\ lastTrigger = [t \in ScenarioTypes |->
                        [last |-> "never", building_id |-> None]]
    /\ synced = FALSE
    /\ gen = [pc |-> "sleep", idx |-> 0]
    /\ reading = NoReading
    /\ readings = <<>>
    /\ passSeen = [b \in PassBuildings |-> {}]
    /\ now = 0

InitCommon == InitScenario /\ InitOther

\* The scenario types a trigger has written so far.
Touched == {t \in ScenarioTypes : SCENARIO_STATE[t] # InitialScenarioState[t]}

\* The requests of a specification: triggers carry a type, a building, an
\* intensity and a duration out of the given sets (Missing: the key is absent),
\* stops a type; in one behaviour triggers go to at most maxTouched types.
Requests(types, buildings, intensities, durations, maxTouched) ==
    \/ \E t \in types, b \in buildings, i \in intensities, d \in durations :
          /\ t \in ScenarioTypes => Cardinality(Touched \cup {t}) <= maxTouched
          /\ TriggerRecv(TRUE, t, b, i, d)
    \/ TriggerNoBody(TRUE)
    \/ \E ok \in BOOLEAN : TriggerQuery(ok)
    \/ TriggerActivate
    \/ \E ok \in BOOLEAN : TriggerEmit(ok)
    \/ TriggerReturn
    \/ \E t \in types : StopRecv(TRUE, t)
    \/ StopNoBody(TRUE)
    \/ StopActive
    \/ StopBuilding
    \/ \E ok \in BOOLEAN : StopEmit(ok)
    \/ StopReturn

\* The generation loop of the generator thread.
Generator ==
    \/ GenStart
    \/ GenerateReading
    \/ GenInsert

RequestTypes == ScenarioTypes \cup {"all", "fire", "none"}

\* The scenario endpoints alone, one request at a time.
Init == InitCommon /\ appInSysModules = TRUE

Next == Requests(RequestTypes, {Missing, 2}, {Missing, 5}, {Missing}, MaxTouchedTypes)

Spec == Init /\ [][Next]_vars

\* The endpoints and the generator thread.
InitGen == InitCommon /\ appInSysModules = TRUE

NextGen ==
    \/ Requests(ScenarioTypes \cup {"all"}, {Missing, 2}, {Missing}, {Missing},
                MaxTouchedTypesGen)
    \/ Generator

SpecGen == InitGen /\ [][NextGen]_vars

\* The same, with triggers that differ in the intensity they carry.
NextIntensity ==
    \/ Requests(ScenarioTypes, {Missing}, {Missing, 0, 5}, {Missing},
                MaxTouchedTypesGen)
    \/ Generator

SpecIntensity == InitGen /\ [][NextIntensity]_vars

\* The endpoints, the generator thread and the clock.
NextTime ==
    \/ Requests({"temperature_spike"}, {Missing}, {Missing}, {Missing, 1}, 1)
    \/ Generator
    \/ Tick

SpecTime == InitGen /\ [][NextTime]_vars

\* The endpoints and the generator thread, however the app was launched:
\* `python app.py` loads app.py as module '__main__' (the entry point of
\* app.py), a WSGI server that imports it loads it as module 'app'.
InitLaunch == InitCommon /\ appInSysModules \in BOOLEAN

SpecLaunch == InitLaunch /\ [][NextGen]_vars

\* The endpoints and the generator thread, with a humidity drop whose intensity
\* the caller may set above the humidity itself.
NextClamp ==
    \/ Requests({"humidity_drop"}, {Missing}, {Missing, 60}, {Missing}, 1)
    \/ Generator

SpecClamp == InitGen /\ [][NextClamp]_vars

\* The entry a trigger for building 1 with the given intensity and no duration
\* has stored under a scenario type.
TriggeredBefore(intensity) ==
    ActivatedEntry([building_id |-> 1, intensity |-> intensity,
                    duration |-> DefaultDuration], 0)

\* The intensities of the triggers before: a spike of 10, a humidity drop above
\* the humidity itself, a co2 alarm above the widest co2.
IntensityBefore ==
    [t \in {"temperature_spike", "humidity_drop", "co2_alarm"} |->
        CASE t = "temperature_spike" -> 10
          [] t = "humidity_drop" -> 60
          [] OTHER -> 5000]

\* The endpoints and the generator thread after triggers for building 1 have
\* activated any of the spike, the humidity drop and the co2 alarm; equipment
\* failures are triggered and stopped from there.
InitFailure ==
    /\ InitOther
    /\ appInSysModules = TRUE
    /\ trig = IdleTrig
    /\ stop = IdleStop
    /\ synced = FALSE
    /\ gen = [pc |-> "sleep", idx |-> 0]
    /\ reading = NoReading
    /\ readings = <<>>
    /\ passSeen = [b \in PassBuildings |-> {}]
    /\ now = 0
    /\ \E on \in SUBSET DOMAIN IntensityBefore :
          /\ SCENARIO_STATE =
                [t \in ScenarioTypes |->
                    IF t \in on THEN TriggeredBefore(IntensityBefore[t])
                    ELSE InitialScenarioState[t]]
          /\ lastTrigger =
                [t \in ScenarioTypes |->
                    IF t \in on THEN [last |-> "triggered", building_id |-> 1]
                    ELSE [last |-> "never", building_id |-> None]]

NextFailure ==
    \/ Requests({"equipment_failure"}, {Missing, 2}, {Missing}, {Missing},
                Cardinality(ScenarioTypes))
    \/ Generator

SpecFailure == InitFailure /\ [][NextFailure]_vars

\* The generation loop, as the thread of the app or as the standalone process;
\* the thread is scheduled and its sleeps end.
InitLoop ==
    /\ InitScenario
    /\ appInSysModules = TRUE
    /\ writer = InitialWriter
    /\ InitServer
    /\ InitBridge
    /\ latest = InitialLatest
    /\ loop \in {InitialLoop(standalone) : standalone \in BOOLEAN}

NextLoop == LoopRun \/ LoopInterrupt

SpecLoop == InitLoop /\ [][NextLoop]_vars /\ WF_vars(LoopRun)

\* The integration writer: start_emulation in one thread, stop() called from
\* another at any moment.
NextWriter ==
    \/ WriterStart
    \/ WriterCheck
    \/ \E ok \in BOOLEAN : WriterWrite(ok)
    \/ WriterRaise
    \/ WriterTickDone
    \/ WriterWake
    \/ WriterInterrupt
    \/ WriterStopFlag
    \/ WriterStopClose

SpecWriter == Init /\ [][NextWriter]_vars

\* The frames of the clients: reads of a window that starts mid-sensor, of one
\* that runs off the last temperature sensor and of one no sensor owns, a
\* write-single-register request, and a frame cut short.
ReadRequest(transactionId, unitId, startAddress, count) ==
    RequestFrame(transactionId, unitId, 3, Bytes16(startAddress) \o Bytes16(count))

ClientFrames ==
    {ReadRequest(258, 17, 1001, 2), ReadRequest(65535, 255, 1006, 3),
     ReadRequest(7, 1, 5000, 2),
     RequestFrame(513, 255, 6, Bytes16(1000) \o Bytes16(1)),
     RequestFrame(9, 1, 131, <<>>),
     SubSeq(ReadRequest(258, 17, 1001, 2), 1, 10),
     <<0, 1, 0>>}

\* One client, every kind of frame.
NextServer == Server({1}, ClientFrames)

SpecServer == Init /\ [][NextServer]_vars

\* Clients on every connection slot, with a read, an unsupported function and a
\* frame cut short.
NextServerConcurrent ==
    Server(1..MaxConns,
           {ReadRequest(258, 17, 1001, 2),
            RequestFrame(513, 255, 6, Bytes16(1000) \o Bytes16(1)),
            <<0, 1, 0>>})

SpecServerConcurrent == Init /\ [][NextServerConcurrent]_vars

\* One client that reads the sensor at 1000, whole and in part, while operators
\* pin it to a value within the range, to one above it and to one below it, and
\* release it, and the simulation driver ticks.
ManualValues == {6400, 25600, -1280}

NextManual ==
    \/ Server({1}, {ReadRequest(258, 17, 1000, 2), ReadRequest(7, 1, 1001, 2)})
    \/ Manual({1000}, ManualValues)

SpecManual == Init /\ [][NextManual]_vars

\* The bridge and the generator's inserts.
SpecBridge == Init /\ [][Bridge]_vars

\* The dashboard's reads of the latest readings.
SpecLatest == Init /\ [][Latest]_vars

\* The scenario endpoints served by two threads: a trigger and a stop may be in
\* flight together, and their steps interleave.
ConcurrentRequests(types, buildings) ==
    \/ \E t \in types, b \in buildings : TriggerRecv(FALSE, t, b, Missing, Missing)
    \/ TriggerNoBody(FALSE)
    \/ \E ok \in BOOLEAN : TriggerQuery(ok)
    \/ TriggerActivate
    \/ \E ok \in BOOLEAN : TriggerEmit(ok)
    \/ TriggerReturn
    \/ \E t \in types \cup {"all"} : StopRecv(FALSE, t)
    \/ StopNoBody(FALSE)
    \/ StopActive
    \/ StopBuilding
    \/ \E ok \in BOOLEAN : StopEmit(ok)
    \/ StopReturn

NextConcurrent == ConcurrentRequests({"temperature_spike"}, {Missing, 2})

SpecConcurrent == Init /\ [][NextConcurrent]_vars

(***************************************************************************)
(* Properties of the scenario endpoints                                    *)
(***************************************************************************)
\* A response is out: the handler has answered and not yet returned.
TriggerAnswered == trig.pc = "done"
StopAnswered == stop.pc = "done"

\* C1: a trigger whose type is not one of the four scenario types, and a stop
\* whose type is neither one of them nor 'all', answers success=false, leaves
\* SCENARIO_STATE as the request found it and emits no notification.
C1_InvalidTypeRejected ==
    /\ (TriggerAnswered /\ trig.type \notin ScenarioTypes) =>
          /\ ~trig.success
          /\ SCENARIO_STATE = trig.pre
          /\ trig.emitted = <<>>
    /\ (StopAnswered /\ stop.type \notin ScenarioTypes \cup {"all"}) =>
          /\ ~stop.success
          /\ SCENARIO_STATE = stop.pre
          /\ stop.emitted = <<>>

\* A trigger of 'all' has been rejected while a scenario is active.
C1_Witness ==
    /\ TriggerAnswered
    /\ trig.type = "all"
    /\ ~trig.success
    /\ \E t \in ScenarioTypes : SCENARIO_STATE[t].active

\* C2: when no request is in flight, each scenario type is active exactly when
\* its last request answered success=true was a trigger, and then for the
\* building of that trigger.
C2_ScopeOfLastSuccessfulTrigger ==
    (trig.pc = "idle" /\ stop.pc = "idle") =>
        \A t \in ScenarioTypes :
            IF lastTrigger[t].last = "triggered"
            THEN /\ SCENARIO_STATE[t].active
                 /\ SCENARIO_STATE[t].building_id = lastTrigger[t].building_id
            ELSE ~SCENARIO_STATE[t].active

\* C3: while a request for one scenario type is served, the entry of every other
\* type stays as the request found it.
C3_OtherTypesUnchanged ==
    /\ (trig.pc # "idle" /\ trig.type \in ScenarioTypes) =>
          \A u \in ScenarioTypes \ {trig.type} : SCENARIO_STATE[u] = trig.pre[u]
    /\ (stop.pc # "idle" /\ stop.type \in ScenarioTypes) =>
          \A u \in ScenarioTypes \ {stop.type} : SCENARIO_STATE[u] = stop.pre[u]

\* A trigger has been answered while another type is active for another building.
C3_Witness ==
    /\ TriggerAnswered
    /\ trig.success
    /\ \E u \in ScenarioTypes \ {trig.type} :
          /\ SCENARIO_STATE[u].active
          /\ SCENARIO_STATE[u].building_id # SCENARIO_STATE[trig.type].building_id

\* C6: a request answered success=false has left SCENARIO_STATE as it found it,
\* and a trigger answered success=true has recorded its type as active with the
\* requested building and intensity.
C6_SuccessFlagTellsEffect ==
    /\ (TriggerAnswered /\ ~trig.success) => SCENARIO_STATE = trig.pre
    /\ (StopAnswered /\ ~stop.success) => SCENARIO_STATE = stop.pre
    /\ (TriggerAnswered /\ trig.success) =>
          /\ SCENARIO_STATE[trig.type].active
          /\ SCENARIO_STATE[trig.type].building_id = trig.building_id
          /\ SCENARIO_STATE[trig.type].intensity = trig.intensity

\* What a notification announces is what the scenario status shows.
Announced(n) ==
    IF n.event = "scenario_triggered"
    THEN /\ SCENARIO_STATE[n.type].active
         /\ SCENARIO_STATE[n.type].building_id = n.building_id
         /\ SCENARIO_STATE[n.type].intensity = n.intensity
    ELSE \A t \in StoppedTypes(n.type) :
            /\ ~SCENARIO_STATE[t].active
            /\ SCENARIO_STATE[t].building_id = None

\* C8: a request answered success=true has emitted exactly one notification, of
\* its own kind, and until the handler returns the scenario status shows what each
\* emitted notification announces.
C8_OneNotificationAfterUpdate ==
    /\ (TriggerAnswered /\ trig.success) =>
          /\ Len(trig.emitted) = 1
          /\ trig.emitted[1].event = "scenario_triggered"
          /\ trig.emitted[1].type = trig.type
    /\ (StopAnswered /\ stop.success) =>
          /\ Len(stop.emitted) = 1
          /\ stop.emitted[1].event = "scenario_stopped"
          /\ stop.emitted[1].type = stop.type
    /\ \A k \in 1..Len(trig.emitted) : Announced(trig.emitted[k])
    /\ \A k \in 1..Len(stop.emitted) : Announced(stop.emitted[k])

\* A stop of 'all' has emitted its notification after two types were active.
C8_Witness ==
    /\ StopAnswered
    /\ stop.success
    /\ stop.type = "all"
    /\ Len(stop.emitted) = 1
    /\ Cardinality({t \in ScenarioTypes : stop.pre[t].active}) = 2

\* C11: when a trigger and a stop of the same scenario type are served together
\* and both have done their writes, the entry of the type is the trigger's
\* (active, for the triggered building) or the stop's (inactive, no building).
C11_TriggerStopExclusive ==
    (/\ trig.pc \in {"emit", "done"}
     /\ stop.pc \in {"emit", "done"}
     /\ trig.type \in ScenarioTypes
     /\ trig.type \in StoppedTypes(stop.type))
    => LET e == SCENARIO_STATE[trig.type]
       IN  \/ e.active /\ e.building_id = trig.building_id
           \/ ~e.active /\ e.building_id = None

(***************************************************************************)
(* Properties of the generated readings                                    *)
(***************************************************************************)
\* The generator thread has taken one turn of its loop: reading' is the reading
\* of that turn, generated against SCENARIO_STATE when ACTIVE_SCENARIOS is bound
\* to it.
GenStepTaken ==
    /\ gen.pc = "pass"
    /\ gen'.pc = "pass"
    /\ gen'.idx = gen.idx + 1
    /\ synced'

\* The quantity a scenario type adjusts lies, in reading r, in its normal range
\* moved by the adjustment i (hundredths).
Shifted(t, r, i) ==
    CASE t = "temperature_spike" ->
            /\ r.temperature >= (base_temps[r.building_id] - 2 + i) * 100
            /\ r.temperature <= (base_temps[r.building_id] + 2 + i) * 100
      [] t = "humidity_drop" ->
            /\ r.humidity >= (base_humidity[r.building_id] - 5 - i) * 100
            /\ r.humidity <= (base_humidity[r.building_id] + 5 - i) * 100
      [] t = "co2_alarm" ->
            /\ r.co2 >= (400 + i) * 100
            /\ r.co2 <= (600 + i) * 100
      [] OTHER ->
            /\ r.pressure >= 990 * 100
            /\ r.pressure <= 1020 * 100

\* Type t is active for building b.
ActiveFor(t, b) ==
    /\ SCENARIO_STATE[t].active
    /\ SCENARIO_STATE[t].building_id = b

IntensityTypes == {"temperature_spike", "humidity_drop", "co2_alarm"}

\* Reading r shows no adjustment of type t: the pressure is normal, and unless
\* an equipment failure of the building makes every quantity erratic, the
\* quantity of t is in its normal range.
Unadjusted(t, r) ==
    IF t = "equipment_failure"
    THEN Shifted(t, r, 0)
    ELSE ~ActiveFor("equipment_failure", r.building_id) => Shifted(t, r, 0)

\* C4: a reading gets the adjustment of a scenario type exactly when the type is
\* active for the building of its sensor: then the type's quantity is its normal
\* value moved by the intensity, and otherwise every quantity of the reading is in
\* its normal range, whatever is active for other buildings.
C4_OnlyScopedBuildingAdjusted ==
    [][GenStepTaken =>
        LET r == reading'
            b == r.building_id
        IN  IF ActiveFor("equipment_failure", b) THEN TRUE
            ELSE /\ Shifted("equipment_failure", r, 0)
                 /\ \A t \in IntensityTypes :
                       IF ActiveFor(t, b)
                       THEN Shifted(t, r, SCENARIO_STATE[t].intensity)
                       ELSE Shifted(t, r, 0)]_vars

\* In one pass the readings of building 1 got the temperature spike that is active
\* for it, and the reading of a sensor of building 2 that followed is normal.
C4_Witness ==
    /\ ActiveFor("temperature_spike", 1)
    /\ gen.pc = "pass"
    /\ passSeen[1] = {{"temperature_spike"}}
    /\ passSeen[2] = {{}}
    /\ reading.building_id = 2
    /\ \A t \in ScenarioTypes : Shifted(t, reading, 0)

\* The documented default intensities.
DocumentedDefault(t) ==
    CASE t = "temperature_spike" -> 10
      [] t = "humidity_drop"     -> 15
      [] t = "co2_alarm"         -> 400
      [] OTHER                   -> 0

\* C5: a trigger answered success=true has stored the intensity the request
\* carried, 0 included, or the documented default of its type when it carried
\* none; and a reading in the scope of a type is moved by the stored intensity.
C5_IntensityStoredAndApplied ==
    [][/\ (trig'.pc = "done" /\ trig'.success) =>
              SCENARIO_STATE'[trig'.type].intensity =
                  IF trig'.sent = Missing THEN DocumentedDefault(trig'.type)
                  ELSE trig'.sent
       /\ GenStepTaken =>
              \A t \in IntensityTypes :
                  (/\ ActiveFor(t, reading'.building_id)
                   /\ ~ActiveFor("equipment_failure", reading'.building_id))
                  => Shifted(t, reading', SCENARIO_STATE[t].intensity)]_vars

\* A co2 alarm triggered with intensity 5 is stored with 5, and a reading of its
\* building has 405.00 ppm, the lowest draw moved by 5.
C5_Witness ==
    /\ lastTrigger["co2_alarm"].last = "triggered"
    /\ ActiveFor("co2_alarm", 1)
    /\ SCENARIO_STATE["co2_alarm"].intensity = 5
    /\ reading.building_id = 1
    /\ reading.co2 = 405 * 100

\* C7: a stop answered success=true leaves the types it names inactive, with no
\* building; and while the last request answered success=true for a type is a
\* stop, and no trigger of the type is being served, no generated reading shows
\* the adjustment of that type.
C7_StoppedMeansNoAdjustment ==
    [][/\ (stop'.pc = "done" /\ stop'.success) =>
              \A t \in StoppedTypes(stop'.type) :
                  /\ ~SCENARIO_STATE'[t].active
                  /\ SCENARIO_STATE'[t].building_id = None
       /\ GenStepTaken =>
              \A t \in ScenarioTypes :
                  (/\ lastTrigger[t].last = "stopped"
                   /\ ~(trig.pc # "idle" /\ trig.type = t))
                  => Unadjusted(t, reading')]_vars

\* C9: once the duration of a scenario has elapsed since it was started, no
\* generated reading shows its adjustment.
C9_ScenarioExpires ==
    [][GenStepTaken =>
        \A t \in ScenarioTypes :
            (/\ SCENARIO_STATE[t].started_at # None
             /\ SCENARIO_STATE[t].duration # None
             /\ now >= SCENARIO_STATE[t].started_at + SCENARIO_STATE[t].duration)
            => Unadjusted(t, reading')]_vars

\* The widest range of each quantity, in the quantity's unit: the range the
\* generator itself draws from for its most erratic readings (a relative humidity
\* is a percentage, a concentration is not negative).
QuantityRange ==
    [humidity |-> <<0, 100>>, co2 |-> <<0, 2000>>, pressure |-> <<900, 1100>>]

\* C12: every generated reading has each quantity within the range of the
\* quantity, whatever scenario is active and whatever intensity it was given.
C12_ReadingWithinRange ==
    [][GenStepTaken =>
        /\ reading'.humidity >= QuantityRange.humidity[1] * 100
        /\ reading'.humidity <= QuantityRange.humidity[2] * 100
        /\ reading'.co2 >= QuantityRange.co2[1] * 100
        /\ reading'.co2 <= QuantityRange.co2[2] * 100
        /\ reading'.pressure >= QuantityRange.pressure[1] * 100
        /\ reading'.pressure <= QuantityRange.pressure[2] * 100]_vars

\* The generator thread has generated one reading.
ReadingGenerated ==
    /\ gen.pc = "pass"
    /\ gen'.pc = "pass"
    /\ gen'.idx = gen.idx + 1

\* C14: when no request is being served, the scenario state a reading is
\* generated against is the app's SCENARIO_STATE.
C14_GeneratorSeesAppState ==
    [][(ReadingGenerated /\ trig.pc = "idle" /\ stop.pc = "idle") =>
          ActiveScenarios(synced') = SCENARIO_STATE]_vars

\* C13: the generation loop leaves its loop only on a KeyboardInterrupt of the
\* standalone process; an iteration that raised goes through the except branch
\* back to the top of the loop; and whatever failed in an iteration, the next
\* iteration is started (or the process is interrupted).
C13_LoopSurvivesFailure ==
    /\ [][/\ loop'.pc = "ended" => (loop'.interrupted /\ loop'.standalone)
          /\ (loop.pc = "generate" /\ loop'.pc \notin {"insert", "ended"}) =>
                 loop'.pc = "except"
          /\ (loop.pc = "except" /\ loop'.pc # "except") =>
                 loop'.pc \in {"top", "ended"}]_vars
    /\ \A k \in 0..(MaxIteration - 1) :
          (loop.iteration = k) ~> (loop.iteration > k \/ loop.pc = "ended")

\* An iteration is under way after the one before it raised.
C13_Witness ==
    /\ loop.pc = "generate"
    /\ loop.failed
    /\ loop.iteration >= 2

\* C15: the sensor ids of the configuration are pairwise distinct (as many ids
\* as entries); the list a
\* generation pass hands over has exactly one reading for each sensor of the
\* pass, in the order of the configuration; and every reading carries the
\* building and the controller the configuration gives its sensor, whatever
\* scenario has been triggered or stopped.
C15_SensorSetFixed ==
    /\ Cardinality({sensors_config[k].sensor_id : k \in 1..Len(sensors_config)})
          = Len(sensors_config)
    /\ (gen.pc = "pass" /\ gen.idx > Len(PassConfig)) =>
          /\ Len(readings) = Len(PassConfig)
          /\ \A k \in 1..Len(PassConfig) : readings[k] = PassConfig[k]
    /\ \A k \in 1..Len(readings) :
          readings[k] \in {sensors_config[j] : j \in 1..Len(sensors_config)}

\* A pass is complete while an equipment failure is active for building 1.
C15_Witness ==
    /\ gen.pc = "pass"
    /\ gen.idx > Len(PassConfig)
    /\ Len(readings) = Len(PassConfig)
    /\ ActiveFor("equipment_failure", 1)

\* C16: once stop() has set running to false, the emulation loop starts no tick
\* (its next loop test ends it); and no reading is written once stop() has
\* closed the connection.
C16_ShutdownAtTickBoundary ==
    [][/\ (writer.stop # "no" /\ writer.pc = "check") => writer'.pc # "tick"
       /\ (writer.closed /\ writer'.sensor = writer.sensor + 1) =>
              writer'.last # "row"]_vars

\* C10: in one pass, the readings of one building all get the same scenarios.
C10_PassAtomic ==
    \A b \in PassBuildings : Cardinality(passSeen[b]) <= 1

(***************************************************************************)
(* Properties of the protocol server                                       *)
(***************************************************************************)
\* The handler of connection c reads a frame.
FrameRead(c) ==
    /\ conns[c].state = "connected"
    /\ conns[c].cur = NoRequest
    /\ conns[c].inbox # <<>>
    /\ Len(conns'[c].inbox) < Len(conns[c].inbox)

\* The handler of connection c is done with the request it was handling.
RequestHandled(c) ==
    /\ conns[c].cur # NoRequest
    /\ conns'[c].cur = NoRequest

\* The request connection c is handling, as it came, and the response written
\* last.
RequestOf(c) == conns[c].received[Len(conns[c].received)]
ResponseOf(c) == conns'[c].outbox[Len(conns'[c].outbox)]

\* C17: a complete frame whose function code is not 0x03 is taken for a
\* request, not dropped; and its handler writes one response of 9 bytes, with
\* the transaction id and the unit id of the request, protocol id 0, length 3,
\* the function code with its high bit set and exception code 1, and leaves the
\* connection open.
C17_UnsupportedFunctionAnswered ==
    [][\A c \in 1..MaxConns :
        /\ (/\ FrameRead(c)
            /\ Len(Head(conns[c].inbox)) >= 8
            /\ Head(conns[c].inbox)[8] # 3)
           => /\ conns'[c].state = "connected"
              /\ conns'[c].cur # NoRequest
              /\ conns'[c].received = Append(conns[c].received, Head(conns[c].inbox))
        /\ (RequestHandled(c) /\ RequestOf(c)[8] # 3)
           => /\ Len(conns'[c].outbox) = Len(conns[c].outbox) + 1
              /\ Len(ResponseOf(c)) = 9
              /\ SubSeq(ResponseOf(c), 1, 2) = SubSeq(RequestOf(c), 1, 2)
              /\ SubSeq(ResponseOf(c), 3, 6) = <<0, 0, 0, 3>>
              /\ ResponseOf(c)[7] = RequestOf(c)[7]
              /\ ResponseOf(c)[8] >= 128
              /\ ResponseOf(c)[8] % 128 = RequestOf(c)[8] % 128
              /\ ResponseOf(c)[9] = 1
              /\ conns'[c].state = "connected"]_vars

\* The write-single-register request 0x0201 of unit 255 has been answered with
\* the exception frame of function 0x86, and the connection has gone on to
\* answer an unsupported function 0x83.
C17_Witness ==
    /\ conns[1].state = "connected"
    /\ conns[1].outbox = << <<2, 1, 0, 0, 0, 3, 255, 134, 1>>,
                            <<0, 9, 0, 0, 0, 3, 1, 131, 1>> >>

\* The word at slot address a: of the sensor based at a the high word when a is
\* even, of the sensor based at a - 1 the low word when a is odd, 0 when there
\* is no such sensor.
SlotWord(a) ==
    IF a % 2 = 0
    THEN IF a \in BaseAddresses THEN Encode(store.values[a]).hi ELSE 0
    ELSE IF a - 1 \in BaseAddresses THEN Encode(store.values[a - 1]).lo ELSE 0

\* C18: the response to a read of count registers from a start address carries
\* exactly count words, the k-th being the word of slot start + k - 1, for even
\* and odd start addresses alike.
C18_WindowWordsAttributed ==
    [][\A c \in 1..MaxConns :
        (RequestHandled(c) /\ RequestOf(c)[8] = 3) =>
           LET startAddress == Word16(RequestOf(c), 8)
               count == Word16(RequestOf(c), 10)
           IN  /\ Len(ResponseOf(c)) = 9 + 2 * count
               /\ \A k \in 1..count :
                     Word16(ResponseOf(c), 9 + 2 * (k - 1))
                         = SlotWord(startAddress + k - 1)]_vars

\* The read of 2 registers from 1001 has been answered, before any tick, with
\* the low word 0x0800 of the sensor at 1000 (20.00390625) and the high word
\* 0x41A8 of the sensor at 1002 (21.01171875).
C18_Witness ==
    /\ store.ticks = 0
    /\ conns[1].outbox # <<>>
    /\ conns[1].outbox[1] = <<1, 2, 0, 0, 0, 7, 17, 3, 4, 8, 0, 65, 168>>

\* C19: a read of a range in which no slot belongs to a configured sensor is
\* answered with a read response of 9 + 2*count bytes, length field 3 + 2*count,
\* function code 0x03, byte count 2*count and every register byte 0, and the
\* connection stays open.
C19_UnmappedRangeReadsZero ==
    [][\A c \in 1..MaxConns :
        (RequestHandled(c) /\ RequestOf(c)[8] = 3) =>
           LET startAddress == Word16(RequestOf(c), 8)
               count == Word16(RequestOf(c), 10)
           IN  (\A a \in startAddress..(startAddress + count - 1) :
                   a \notin BaseAddresses /\ a - 1 \notin BaseAddresses)
               => /\ Len(ResponseOf(c)) = 9 + 2 * count
                  /\ Word16(ResponseOf(c), 4) = 3 + 2 * count
                  /\ ResponseOf(c)[8] = 3
                  /\ ResponseOf(c)[9] = 2 * count
                  /\ \A k \in 10..Len(ResponseOf(c)) : ResponseOf(c)[k] = 0
                  /\ conns'[c].state = "connected"]_vars

\* The read of 2 registers from 5000 has been answered with two zero words.
C19_Witness ==
    /\ conns[1].state = "connected"
    /\ conns[1].outbox # <<>>
    /\ conns[1].outbox[Len(conns[1].outbox)]
          = <<0, 7, 0, 0, 0, 7, 1, 3, 4, 0, 0, 0, 0>>

\* C20: on each connection there is one response for every request read, save
\* the one being handled, and the k-th response carries the transaction id of
\* the k-th request.
C20_ResponsesInOrder ==
    \A c \in 1..MaxConns :
        /\ Len(conns[c].outbox) =
              Len(conns[c].received) - (IF conns[c].cur = NoRequest THEN 0 ELSE 1)
        /\ \A k \in 1..Len(conns[c].outbox) :
              Word16(conns[c].outbox[k], 0) = Word16(conns[c].received[k], 0)

\* Two requests with different transaction ids have been answered on connection
\* 1 while connection 2 had one answered and the store ticked.
C20_Witness ==
    /\ Len(conns[1].outbox) = 2
    /\ Word16(conns[1].outbox[1], 0) # Word16(conns[1].outbox[2], 0)
    /\ Len(conns[2].outbox) = 1
    /\ store.ticks > 0

\* A tick of the simulation driver.
Ticked == store'.ticks = store.ticks + 1

\* C21: while a sensor is pinned, its value in the store is the value it was
\* pinned to, within its range or not: a tick leaves the value and the pin as
\* they are, and every read response carries, in each slot of the window that
\* the sensor owns, the word of the encoding of the pinned value.
C21_PinnedValueRead ==
    [][/\ \A a \in BaseAddresses :
            store.pinned[a] =>
               /\ store.values[a] = store.manual[a]
               /\ Ticked => /\ store'.values[a] = store.manual[a]
                            /\ store'.pinned[a]
       /\ \A c \in 1..MaxConns :
            (RequestHandled(c) /\ RequestOf(c)[8] = 3) =>
               LET startAddress == Word16(RequestOf(c), 8)
                   count == Word16(RequestOf(c), 10)
               IN  \A k \in 1..count :
                      LET a == startAddress + k - 1
                      IN  (OwnerBase(a) \in BaseAddresses
                             /\ store.pinned[OwnerBase(a)]) =>
                             Word16(ResponseOf(c), 9 + 2 * (k - 1))
                                = IF a % 2 = 0
                                  THEN Encode(store.manual[OwnerBase(a)]).hi
                                  ELSE Encode(store.manual[OwnerBase(a)]).lo]_vars

\* The sensor at 1000 is pinned to 100.0, above its range, the store has ticked
\* twice since the start, and the read of its two registers was answered last
\* with 0x42C8 0x0000, the encoding of 100.0.
C21_Witness ==
    /\ store.pinned[1000]
    /\ store.manual[1000] = 25600
    /\ store.manual[1000] > SensorMax(1000)
    /\ store.ticks = MaxTicks
    /\ conns[1].outbox # <<>>
    /\ conns[1].outbox[Len(conns[1].outbox)]
          = <<1, 2, 0, 0, 0, 7, 17, 3, 4, 66, 200, 0, 0>>

\* C22: a tick leaves every sensor that is not pinned unpinned and with a value
\* within its range, whatever its value was; so for a sensor released by
\* clearManual from a value outside its range, and its first tick after.
C22_ReleasedSensorReclamped ==
    [][Ticked =>
          \A a \in BaseAddresses :
              ~store.pinned[a] =>
                 /\ ~store'.pinned[a]
                 /\ SensorMin(a) <= store'.values[a]
                 /\ store'.values[a] <= SensorMax(a)]_vars

\* The sensor at 1000 is not pinned and sits at the upper end of its range after
\* one tick: it was pinned above the range (no drift from the start value gets
\* there), released, and clamped by the tick.
C22_Witness ==
    /\ ~store.pinned[1000]
    /\ store.ticks = 1
    /\ store.values[1000] = SensorMax(1000)

\* C23: when a handler reads a frame of fewer than 8 bytes, its connection is
\* closed with nothing written to it, and nothing is ever written to it after;
\* every other connection slot is left as it is, and goes on as before: a
\* listening slot can accept, a connected one can have its next frame read and
\* the request it is handling answered.
C23_ShortFrameDropsOneConnection ==
    /\ [][\A c \in 1..MaxConns :
            /\ (/\ FrameRead(c)
                /\ Len(Head(conns[c].inbox)) \in 1..7)
               => /\ conns'[c].state = "closed"
                  /\ conns'[c].outbox = conns[c].outbox
                  /\ \A o \in 1..MaxConns \ {c} : conns'[o] = conns[o]
            /\ conns[c].log # <<>>
               => /\ conns'[c].state = "closed"
                  /\ conns'[c].outbox = conns[c].outbox]_vars
    /\ [](\A c \in 1..MaxConns :
            conns[c].log # <<>> =>
               \A o \in 1..MaxConns \ {c} :
                  /\ conns[o].state = "listening" => ENABLED Accept(o)
                  /\ (conns[o].state = "connected" /\ conns[o].cur # NoRequest)
                        => ENABLED ServerRespond(o)
                  /\ (conns[o].state = "connected" /\ conns[o].cur = NoRequest
                         /\ conns[o].inbox # <<>>)
                        => ENABLED ServerRead(o))

\* Connection 1 was dropped on the 3-byte frame with no response, having had a
\* request answered before; connection 2 is open with a response written and a
\* request in hand.
C23_Witness ==
    /\ conns[1].state = "closed"
    /\ conns[1].log = <<0, 1, 0>>
    /\ Len(conns[1].outbox) = 1
    /\ conns[2].state = "connected"
    /\ Len(conns[2].outbox) = 1
    /\ conns[2].cur # NoRequest

(***************************************************************************)
(* Properties of the data bridge                                           *)
(***************************************************************************)
\* data_data has a row copied from measurement t of row id of sensor_readings.
Copied(id, t) ==
    \E k \in DOMAIN data_data : data_data[k].row = id /\ data_data[k].type = t

\* C24: data_data never holds two rows copied from the same measurement of the
\* same row of sensor_readings, whatever calls of sync_data failed to read or
\* had INSERTs fail within a batch.
C24_NoReadingCopiedTwice ==
    \A j, k \in DOMAIN data_data :
        (data_data[j].row = data_data[k].row
           /\ data_data[j].type = data_data[k].type) => j = k

\* A first call had an INSERT of row 1 fail within its batch, and a later call
\* has copied a row inserted after it.
C24_Witness ==
    /\ bridge.pc = "idle"
    /\ Len(sensor_readings) >= 2
    /\ ~sensor_readings[1].late
    /\ Copied(1, "temperature") /\ ~Copied(1, "humidity")
    /\ \E id \in DOMAIN sensor_readings :
          sensor_readings[id].late /\ Copied(id, "temperature")

\* C25: no reading is lost. Between calls of sync_data, every row inserted into
\* sensor_readings after the bridge's first sync whose timestamp is not after
\* last_sync_time (no later call selects it) has each measurement of a mapped
\* type copied to data_data.
C25_NoReadingLost ==
    bridge.pc = "idle" =>
       \A id \in DOMAIN sensor_readings :
          (sensor_readings[id].late
             /\ sensor_readings[id].timestamp <= bridge.last_sync_time)
          => \A t \in MappedTypes : Copied(id, t)

\* C26: the count a call of sync_data that got through its batch returns (and
\* logs) is the number of rows the call inserted into data_data.
C26_CountIsRowsInserted ==
    bridge.result = "synced" => bridge.returned = bridge.inserted

\* C27: a call of sync_data whose read of sensor_readings fails returns 0,
\* leaves data_data as it is and does not advance last_sync_time: last_sync_time
\* is the start of the window the failed call asked for (what it was, or for
\* the first call its window of time_window_minutes), so the next call selects
\* every row the failed call would have.
C27_FailedReadChangesNothing ==
    [][(bridge.pc = "idle" /\ bridge'.result = "read_failed"
          /\ bridge' # bridge) =>
          /\ bridge'.pc = "idle"
          /\ bridge'.returned = 0
          /\ data_data' = data_data
          /\ bridge.last_sync_time # None
                => bridge'.last_sync_time = bridge.last_sync_time
          /\ bridge'.last_sync_time = WindowStart(bridge, feed.clock)
          /\ SelectNewer(sensor_readings', Len(sensor_readings'),
                         WindowStart(bridge', feed'.clock))
                = SelectNewer(sensor_readings, Len(sensor_readings),
                              WindowStart(bridge, feed.clock))]_vars

\* A call after a completed sync failed to read while a row newer than
\* last_sync_time was waiting in sensor_readings.
C27_Witness ==
    /\ bridge.result = "read_failed"
    /\ bridge.last_sync_time # None
    /\ data_data # <<>>
    /\ \E id \in DOMAIN sensor_readings :
          /\ sensor_readings[id].timestamp > bridge.last_sync_time
          /\ \A t \in MappedTypes : ~Copied(id, t)
    /\ \E id \in DOMAIN sensor_readings :
          sensor_readings[id].timestamp = bridge.last_sync_time

\* C28: the list a completed pass of generate_all_sensors returns has one reading
\* for each entry of sensors_config, which makes exactly 50 readings, with the
\* sensor ids 1 to 50, the range the bridge documents.
C28_FiftySensors ==
    (gen.pc = "pass" /\ gen.idx > Len(PassConfig)) =>
       /\ \A k \in 1..Len(readings) : readings[k] = PassConfig[k]
       /\ Len(sensors_config) = 50
       /\ {sensors_config[k].sensor_id : k \in 1..Len(sensors_config)} = 1..50

(***************************************************************************)
(* Properties of the reports of the latest readings                        *)
(***************************************************************************)
\* The entries of the last response of /api/readings/latest and of the last
\* 'sensor_update' payload.
ReportedEntries ==
    (IF latest.api.success
     THEN {latest.api.data[k] : k \in 1..Len(latest.api.data)} ELSE {})
    \cup {latest.update.readings[k] : k \in 1..Len(latest.update.readings)}

\* C29: every entry reported, by /api/readings/latest or in a 'sensor_update'
\* payload, gives each measurement of the row it was made from as it is stored:
\* the number stored, 0 for a stored 0, and null for NULL alone.
C29_StoredValueReported ==
    \A e \in ReportedEntries :
        \E k \in DOMAIN latest.rows :
            /\ latest.rows[k].sensor_id = e.sensor_id
            /\ latest.rows[k].timestamp = e.timestamp
            /\ e.temperature = latest.rows[k].temperature
            /\ e.humidity = latest.rows[k].humidity
            /\ e.co2 = latest.rows[k].co2
            /\ e.pressure = latest.rows[k].pressure

\* The intensity a temperature spike active for building b adds, 0 without one.
SpikeFor(b) ==
    IF ActiveFor("temperature_spike", b)
    THEN IntensityOf(SCENARIO_STATE["temperature_spike"], 10) ELSE 0

\* C30: a reading generated for a building with an active equipment failure has
\* its humidity in [0,100], its co2 in [0,2000] and its pressure in [900,1100],
\* whatever humidity drop or co2 alarm is active for the building; and its
\* temperature is the normal one (base +/- 2) moved by the intensity of the
\* building's temperature spike and by a further offset in [-10,10].
C30_FailureAppliedLast ==
    [][(GenStepTaken /\ ActiveFor("equipment_failure", reading'.building_id)) =>
        LET b == reading'.building_id
        IN  /\ reading'.humidity >= 0 /\ reading'.humidity <= 100 * 100
            /\ reading'.co2 >= 0 /\ reading'.co2 <= 2000 * 100
            /\ reading'.pressure >= 900 * 100
            /\ reading'.pressure <= 1100 * 100
            /\ reading'.temperature
                  >= (base_temps[b] - 2 + SpikeFor(b) - 10) * 100
            /\ reading'.temperature
                  <= (base_temps[b] + 2 + SpikeFor(b) + 10) * 100]_vars

\* A reading of building 1 with the spike of 10, the humidity drop of 60, the
\* co2 alarm of 5000 and an equipment failure all active for the building, and
\* the draws at their lower ends: humidity 0 and co2 0, temperature 20-2+10-10.
C30_Witness ==
    /\ reading.building_id = 1
    /\ \A t \in ScenarioTypes : ActiveFor(t, 1)
    /\ SCENARIO_STATE["humidity_drop"].intensity = 60
    /\ SCENARIO_STATE["co2_alarm"].intensity = 5000
    /\ reading.humidity = 0
    /\ reading.co2 = 0
    /\ reading.temperature = 1800

====
